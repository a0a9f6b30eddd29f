------------------------ MODULE ChatRefinementProofs ------------------------
(***************************************************************************)
(* What requests have come to, for every set of requests, users, models    *)
(* and prompts, every similarity and veto, any purges, failures and kills: *)
(* the locks they hold, the log rows and hits they leave, who of several   *)
(* goes upstream, and that all of it implements AnswerCache.               *)
(*                                                                         *)
(* All of this rests on what the handler's local variables are at each of  *)
(* its stages (SInv), on top of the invariant of ChatProxyProofs.          *)
(***************************************************************************)
EXTENDS ChatRefinement, ChatProxyProofs, FiniteSetTheorems

\* Stages of a request that uses the cache and has no reply yet.
OnPath == {"waiting", "locked", "forwarding", "serving", "stored"}

\* Stages before an answer has been found or obtained.
Early == {"new", "waiting", "locked", "forwarding", "bypassing"}

\* Stages in which an entry may hold what the request has obtained.
Late == {"stored", "done", "lost"}

\* The local variables of a request, stage by stage.
ShapeOf(r) ==
  /\ pc[r] = "bypassing" => ask[r].bypass
  /\ pc[r] \in OnPath => ~ask[r].bypass
  /\ pc[r] \in Early => got[r] = NoEntry /\ body[r] = None
  /\ got[r] <= lastId
  /\ got[r] # NoEntry => body[r] # None
  /\ pc[r] = "stored" => body[r] # None /\ body[r].origin = r
  /\ pc[r] = "serving" => body[r] # None /\ body[r].origin # r
  /\ reply[r] # "none" => pc[r] = "done"

\* The stampede lock of a request, stage by stage.
LockShapeOf(r) ==
  /\ Holding(r) <=> pc[r] \in {"locked", "forwarding", "stored"}
  /\ pc[r] = "waiting" => Queued(r)

\* No entry holds the answer of a request that is not so far.
OriginsAreLate == \A i \in Ids : pc[entries[i].response.origin] \in Late

\* The requests that have come in; finitely many by any time.
Begun == {r \in Requests : pc[r] # "new"}

SInv ==
  /\ \A r \in Requests : ShapeOf(r) /\ LockShapeOf(r)
  /\ OriginsAreLate
  /\ IsFiniteSet(Begun)

-----------------------------------------------------------------------------
(* The invariant of the stages.                                            *)

\* r moves to another stage, and changes no variable of another request.
Alone(r, stage) ==
  /\ pc' = [pc EXCEPT ![r] = stage]
  /\ ask' = ask
  /\ \A s \in Requests \ {r} :
       got'[s] = got[s] /\ body'[s] = body[s] /\ reply'[s] = reply[s]

\* The entries that were there, some fewer, and perhaps one with r's answer.
EntriesOf(r) ==
  \A i \in Ids' :
    \/ i \in Ids /\ entries'[i].response.origin = entries[i].response.origin
    \/ entries'[i].response.origin = r

LEMMA RequestMoves ==
  ASSUME CInv, CInv', SInv,
         NEW r \in Requests, NEW stage \in Stages \ {"new"}, Alone(r, stage),
         OthersStay(r), ShapeOf(r)', LockShapeOf(r)',
         lastId <= lastId', EntriesOf(r),
         stage \in Late \/ (pc[r] \notin Late /\ \A i \in Ids' : i \in Ids /\
                              entries'[i].response.origin = entries[i].response.origin)
  PROVE  SInv'
<1>1. \A s \in Requests : pc'[s] = IF s = r THEN stage ELSE pc[s]
  BY DEF Alone, CInv, HInv, TypeOKHandler
<1>2. lastId \in Int /\ lastId' \in Int /\ \A s \in Requests : got[s] \in Int
  BY DEF CInv, TInv, TypeOK, HInv, TypeOKHandler
<1>3. ASSUME NEW s \in Requests PROVE ShapeOf(s)'
  <2>1. CASE s = r
    BY <2>1
  <2>2. CASE s # r
    <3>1. /\ pc'[s] = pc[s] /\ ask'[s] = ask[s] /\ got'[s] = got[s]
          /\ body'[s] = body[s] /\ reply'[s] = reply[s]
      BY <1>1, <2>2 DEF Alone
    <3>2. got[s] <= lastId => got'[s] <= lastId'
      BY <1>2, <3>1
    <3>3. ShapeOf(s)
      BY DEF SInv
    <3> QED BY <3>1, <3>2, <3>3 DEF ShapeOf
  <2> QED BY <2>1, <2>2
<1>4. ASSUME NEW s \in Requests PROVE LockShapeOf(s)'
  <2>1. CASE s = r
    BY <2>1
  <2>2. CASE s # r
    <3>1. pc'[s] = pc[s] /\ (Holding(s)' <=> Holding(s)) /\ (Queued(s) => Queued(s)')
      BY <1>1, <2>2 DEF OthersStay
    <3>2. LockShapeOf(s)
      BY DEF SInv
    <3> QED BY <3>1, <3>2 DEF LockShapeOf
  <2> QED BY <2>1, <2>2
<1>5. OriginsAreLate'
  <2> SUFFICES ASSUME NEW i \in Ids'
               PROVE  pc'[entries'[i].response.origin] \in Late
    BY DEF OriginsAreLate
  <2>1. entries'[i].response.origin \in Requests
    BY DEF CInv, HInv, StoredProvenance
  <2>2. CASE i \in Ids /\ entries'[i].response.origin = entries[i].response.origin
    <3>1. pc[entries[i].response.origin] \in Late
      BY <2>2 DEF SInv, OriginsAreLate
    <3> QED BY <1>1, <2>1, <2>2, <3>1
  <2>3. CASE stage \in Late /\ entries'[i].response.origin = r
    BY <1>1, <2>3
  <2> QED BY <2>2, <2>3 DEF EntriesOf
<1>6. IsFiniteSet(Begun')
  <2>1. Begun' = Begun \cup {r}
    BY <1>1 DEF Begun
  <2> QED BY <2>1, FS_AddElement DEF SInv
<1> QED BY <1>3, <1>4, <1>5, <1>6 DEF SInv

\* Tables that keep their entries.
LEMMA SameEntries ==
  ASSUME NEW r \in Requests, entries' = entries, lastId' = lastId, TypeOK
  PROVE  /\ lastId <= lastId'
         /\ EntriesOf(r)
         /\ \A i \in Ids' : i \in Ids /\
              entries'[i].response.origin = entries[i].response.origin
BY DEF EntriesOf, Ids, TypeOK

\* A request ends, with what it holds or with an answer of its own, and is
\* outside the locks.
LEMMA FinishKeepsSInv ==
  ASSUME CInv, CInv', SInv, NEW r \in Requests, NEW outcome,
         Finish(r, outcome), entries' = entries, lastId' = lastId,
         ask' = ask, got' = got,
         \/ body' = body
         \/ \E form \in Forms :
              body' = [body EXCEPT ![r] = [origin |-> r, form |-> form]],
         OthersStay(r), ~Holding(r)'
  PROVE  SInv'
<1>1. "done" \in Stages \ {"new"} /\ "done" \in Late
  BY DEF Stages, Late
<1>2. /\ pc' = [pc EXCEPT ![r] = "done"]
      /\ reply' = [reply EXCEPT ![r] = outcome]
  BY DEF Finish, Await
<1>3. \/ body'[r] = body[r]
      \/ body'[r] # None
  <2>1. ASSUME NEW form \in Forms,
               body' = [body EXCEPT ![r] = [origin |-> r, form |-> form]]
        PROVE  body'[r] # None
    <3>1. [origin |-> r, form |-> form] \in Responses
      BY OwnAnswerFits
    <3>2. body'[r] = [origin |-> r, form |-> form]
      BY <2>1 DEF CInv, HInv, TypeOKHandler
    <3> QED BY <3>1, <3>2, ChatAssumption
  <2> QED BY <2>1
<1>4. Alone(r, "done")
  BY <1>2 DEF Alone, CInv, HInv, TypeOKHandler
<1>5. pc'[r] = "done"
  BY <1>2 DEF CInv, HInv, TypeOKHandler
<1>6. ShapeOf(r)'
  <2>1. ShapeOf(r)
    BY DEF SInv
  <2> QED BY <1>3, <1>5, <2>1 DEF ShapeOf, OnPath, Early
<1>7. LockShapeOf(r)'
  BY <1>5 DEF LockShapeOf
<1>8. lastId <= lastId' /\ EntriesOf(r)
  BY SameEntries DEF CInv, TInv
<1> QED BY <1>1, <1>4, <1>6, <1>7, <1>8, RequestMoves

LEMMA RejectKeepsSInv ==
  ASSUME CInv, CInv', SInv, NEW r \in Requests, Reject(r)
  PROVE  SInv'
<1>1. /\ pc[r] = "new" /\ Finish(r, "4xx")
      /\ UNCHANGED <<tables, locks, ask, got, body>>
  BY DEF Reject
<1>2. ~Holding(r)
  BY <1>1 DEF SInv, LockShapeOf
<1>3. OthersStay(r) /\ ~Holding(r)'
  BY <1>1, <1>2, LocksStay
<1> QED BY <1>1, <1>3, FinishKeepsSInv DEF tables

LEMMA FailMissKeepsSInv ==
  ASSUME CInv, CInv', SInv, NEW r \in Requests, NEW failure, FailMiss(r, failure)
  PROVE  SInv'
<1>1. /\ Leave(r)
      /\ Finish(r, "ERROR") \/ Finish(r, "500")
      /\ LogRequest("ERROR", User(r), NoEntry) \/ UNCHANGED tables
      /\ UNCHANGED <<ask, got, body>>
  BY DEF FailMiss
<1>2. OthersStay(r) /\ ~Holding(r)'
  BY <1>1, LeaveMoves DEF CInv
<1>3. entries' = entries /\ lastId' = lastId
  BY <1>1 DEF LogRequest, tables
<1> QED BY <1>1, <1>2, <1>3, FinishKeepsSInv

LEMMA LogMissKeepsSInv ==
  ASSUME CInv, CInv', SInv, NEW r \in Requests, LogMiss(r)
  PROVE  SInv'
<1>1. /\ Leave(r)
      /\ Finish(r, Outcome("MISS", body[r]))
      /\ LogRequest("MISS", User(r), got[r]) \/ UNCHANGED tables
      /\ UNCHANGED <<ask, got, body>>
  BY DEF LogMiss
<1>2. OthersStay(r) /\ ~Holding(r)'
  BY <1>1, LeaveMoves DEF CInv
<1>3. entries' = entries /\ lastId' = lastId
  BY <1>1 DEF LogRequest, tables
<1> QED BY <1>1, <1>2, <1>3, FinishKeepsSInv

LEMMA LogHitKeepsSInv ==
  ASSUME CInv, CInv', SInv, NEW r \in Requests, LogHit(r)
  PROVE  SInv'
<1>1. /\ pc[r] = "serving"
      /\ Finish(r, Outcome("HIT", body[r]))
      /\ LogRequest("HIT", User(r), got[r]) \/ UNCHANGED tables
      /\ UNCHANGED <<locks, ask, got, body>>
  BY DEF LogHit
<1>2. OthersStay(r) /\ ~Holding(r)'
  BY <1>1, LocksStay DEF SInv, LockShapeOf
<1>3. entries' = entries /\ lastId' = lastId
  BY <1>1 DEF LogRequest, tables
<1> QED BY <1>1, <1>2, <1>3, FinishKeepsSInv

LEMMA AnswerBypassKeepsSInv ==
  ASSUME CInv, CInv', SInv, NEW r \in Requests, NEW form \in Forms,
         AnswerBypass(r, form)
  PROVE  SInv'
<1> DEFINE response == [origin |-> r, form |-> form]
<1>1. /\ pc[r] = "bypassing"
      /\ Finish(r, Outcome("BYPASS", response))
      /\ LogRequest("BYPASS", User(r), NoEntry) \/ UNCHANGED tables
      /\ body' = [body EXCEPT ![r] = [origin |-> r, form |-> form]]
      /\ UNCHANGED <<locks, ask, got>>
  BY DEF AnswerBypass
<1>2. OthersStay(r) /\ ~Holding(r)'
  BY <1>1, LocksStay DEF SInv, LockShapeOf
<1>3. entries' = entries /\ lastId' = lastId
  BY <1>1 DEF LogRequest, tables
<1> QED BY <1>1, <1>2, <1>3, FinishKeepsSInv

LEMMA FailBypassKeepsSInv ==
  ASSUME CInv, CInv', SInv, NEW r \in Requests, NEW failure,
         FailBypass(r, failure)
  PROVE  SInv'
<1>1. /\ pc[r] = "bypassing"
      /\ Finish(r, "ERROR") \/ Finish(r, "500")
      /\ LogRequest("ERROR", User(r), NoEntry) \/ UNCHANGED tables
      /\ UNCHANGED <<locks, ask, got, body>>
  BY DEF FailBypass
<1>2. OthersStay(r) /\ ~Holding(r)'
  BY <1>1, LocksStay DEF SInv, LockShapeOf
<1>3. entries' = entries /\ lastId' = lastId
  BY <1>1 DEF LogRequest, tables
<1> QED BY <1>1, <1>2, <1>3, FinishKeepsSInv

\* A request that goes on without an answer, to another stage before one.
LEMMA PassKeepsSInv ==
  ASSUME CInv, CInv', SInv, NEW r \in Requests,
         NEW stage \in Early \ {"new"}, pc[r] \in Early,
         pc' = [pc EXCEPT ![r] = stage], UNCHANGED <<ask, got, body, reply>>,
         lastId' = lastId,
         \A i \in Ids' : i \in Ids /\
           entries'[i].response.origin = entries[i].response.origin,
         OthersStay(r), LockShapeOf(r)',
         IF stage = "bypassing" THEN ask[r].bypass ELSE ~ask[r].bypass
  PROVE  SInv'
<1>1. stage \in Stages \ {"new"} /\ stage \notin {"serving", "stored", "done"}
  BY DEF Early, Stages
<1>2. Alone(r, stage)
  BY DEF Alone
<1>3. pc'[r] = stage
  BY DEF CInv, HInv, TypeOKHandler
<1>4. lastId <= lastId' /\ EntriesOf(r)
  BY DEF CInv, TInv, TypeOK, EntriesOf
<1>5. ShapeOf(r)'
  <2>1. ShapeOf(r) /\ pc[r] # "done"
    BY DEF SInv, Early
  <2> QED BY <1>1, <1>3, <2>1 DEF ShapeOf, Early, OnPath
<1>6. pc[r] \notin Late
  BY DEF Early, Late
<1> QED BY <1>1, <1>2, <1>4, <1>5, <1>6, RequestMoves

LEMMA ArriveBypassKeepsSInv ==
  ASSUME CInv, CInv', SInv, NEW r \in Requests, ArriveBypass(r)
  PROVE  SInv'
<1>1. /\ pc[r] = "new" /\ ask[r].bypass
      /\ pc' = [pc EXCEPT ![r] = "bypassing"]
      /\ UNCHANGED <<tables, locks, ask, got, body, reply>>
  BY DEF ArriveBypass, Await
<1>2. "bypassing" \in Early \ {"new"} /\ pc[r] \in Early
  BY <1>1 DEF Early
<1>3. OthersStay(r) /\ (Holding(r)' <=> Holding(r))
  BY <1>1, LocksStay
<1>4. pc'[r] = "bypassing"
  BY <1>1 DEF CInv, HInv, TypeOKHandler
<1>5. LockShapeOf(r)'
  BY <1>1, <1>3, <1>4 DEF SInv, LockShapeOf
<1>6. /\ lastId' = lastId
      /\ \A i \in Ids' : i \in Ids /\
           entries'[i].response.origin = entries[i].response.origin
  BY <1>1 DEF tables, Ids
<1> QED BY <1>1, <1>2, <1>3, <1>5, <1>6, PassKeepsSInv

LEMMA AcquireKeepsSInv ==
  ASSUME CInv, CInv', SInv, NEW r \in Requests, Acquire(r)
  PROVE  SInv'
<1>1. /\ pc[r] = "waiting" /\ Resume(r)
      /\ pc' = [pc EXCEPT ![r] = "locked"]
      /\ UNCHANGED <<tables, ask, got, body, reply>>
  BY DEF Acquire, GoOn
<1>2. "locked" \in Early \ {"new"} /\ pc[r] \in Early
  BY <1>1 DEF Early
<1>3. OthersStay(r) /\ Holding(r)'
  BY <1>1, ResumeMoves DEF CInv
<1>4. pc'[r] = "locked"
  BY <1>1 DEF CInv, HInv, TypeOKHandler
<1>5. LockShapeOf(r)'
  BY <1>3, <1>4 DEF LockShapeOf
<1>6. /\ lastId' = lastId
      /\ \A i \in Ids' : i \in Ids /\
           entries'[i].response.origin = entries[i].response.origin
  BY <1>1 DEF tables, Ids
<1>7. ~ask[r].bypass
  BY <1>1 DEF SInv, ShapeOf, OnPath
<1> QED BY <1>1, <1>2, <1>3, <1>5, <1>6, <1>7, PassKeepsSInv

\* A lookup leaves every entry that stays its origin.
LEMMA LookupKeepsOrigins ==
  ASSUME CInv, NEW r \in Requests, Lookup(Prompt(r), User(r), Model(r))
  PROVE  /\ lastId' = lastId
         /\ \A i \in Ids' : i \in Ids /\
              entries'[i].response.origin = entries[i].response.origin
<1> DEFINE p == Prompt(r)
           u == User(r)
           m == Model(r)
<1>1. p \in Prompts /\ u \in Users /\ m \in Models
  BY AskFields DEF CInv, HInv
<1>2. Lookup(p, u, m) /\ lastId' = lastId
  BY DEF Lookup
<1> HIDE DEF p, u, m
<1> QED BY <1>1, <1>2, LookupKeepsRows DEF CInv

\* A request takes over an entry, and is outside the locks.
LEMMA TakeKeepsSInv ==
  ASSUME CInv, CInv', SInv, NEW r \in Requests, NEW i \in TheHit(r),
         Lookup(Prompt(r), User(r), Model(r)), Take(i, r), GoOn(r, "serving"),
         UNCHANGED <<ask, reply>>, ~ask[r].bypass, pc[r] \in {"new", "locked"},
         OthersStay(r), ~Holding(r)'
  PROVE  SInv'
<1>1. "serving" \in Stages \ {"new"}
  BY DEF Stages
<1>2. /\ i \in Ids
      /\ entries[i].response \in Responses
  BY HitFits DEF CInv, HInv
<1>3. entries[i].response # None /\ entries[i].response.origin # r
  BY <1>2, ChatAssumption DEF SInv, OriginsAreLate, Late
<1>4. /\ pc' = [pc EXCEPT ![r] = "serving"]
      /\ got' = [got EXCEPT ![r] = i]
      /\ body' = [body EXCEPT ![r] = entries[i].response]
  BY DEF Take, GoOn
<1>5. /\ lastId' = lastId
      /\ \A j \in Ids' : j \in Ids /\
           entries'[j].response.origin = entries[j].response.origin
  BY LookupKeepsOrigins
<1>6. Alone(r, "serving")
  BY <1>4 DEF Alone, CInv, HInv, TypeOKHandler
<1>7. i <= lastId
  <2>1. i \in 1 .. lastId /\ lastId \in Nat
    BY <1>2 DEF CInv, TInv, TypeOK
  <2> QED BY <2>1
<1>8. pc'[r] = "serving" /\ got'[r] = i /\ body'[r] = entries[i].response
  BY <1>4 DEF CInv, HInv, TypeOKHandler
<1>9. ShapeOf(r)'
  <2>1. ShapeOf(r) /\ pc[r] # "done"
    BY DEF SInv
  <2> QED BY <1>3, <1>5, <1>7, <1>8, <2>1 DEF ShapeOf, Early, OnPath
<1>10. LockShapeOf(r)'
  BY <1>8 DEF LockShapeOf
<1>11. lastId <= lastId' /\ EntriesOf(r)
  BY <1>5 DEF CInv, TInv, TypeOK, EntriesOf
<1>12. pc[r] \notin Late
  BY DEF Late
<1> QED BY <1>1, <1>5, <1>6, <1>9, <1>10, <1>11, <1>12, RequestMoves

LEMMA ArriveKeepsSInv ==
  ASSUME CInv, CInv', SInv, NEW r \in Requests, Arrive(r)
  PROVE  SInv'
<1>1. /\ pc[r] = "new" /\ ~ask[r].bypass
      /\ Lookup(Prompt(r), User(r), Model(r))
      /\ UNCHANGED <<ask, reply>>
  BY DEF Arrive
<1>2. ASSUME NEW i \in TheHit(r), Take(i, r), GoOn(r, "serving"), UNCHANGED locks
      PROVE  SInv'
  <2>1. OthersStay(r) /\ ~Holding(r)'
    BY <1>1, <1>2, LocksStay DEF SInv, LockShapeOf
  <2> QED BY <1>1, <1>2, <2>1, TakeKeepsSInv
<1>3. ASSUME Enter(r, Key(r)), UNCHANGED <<got, body>>,
             IF holder'[lockOf'[r]] = r THEN GoOn(r, "locked")
                                        ELSE Await(r, "waiting")
      PROVE  SInv'
  <2>1. Key(r) \in Keys
    BY AskFields DEF CInv, HInv
  <2>2. /\ OthersStay(r)
        /\ IF holder'[lockOf'[r]] = r THEN Holding(r)'
                                      ELSE Queued(r)' /\ ~Holding(r)'
    BY <1>3, <2>1, EnterMoves DEF CInv
  <2>3. /\ lastId' = lastId
        /\ \A i \in Ids' : i \in Ids /\
             entries'[i].response.origin = entries[i].response.origin
    BY <1>1, LookupKeepsOrigins
  <2>4. PICK stage \in {"locked", "waiting"} :
          /\ pc' = [pc EXCEPT ![r] = stage]
          /\ stage = "locked" => Holding(r)'
          /\ stage = "waiting" => Queued(r)' /\ ~Holding(r)'
    BY <1>3, <2>2 DEF GoOn, Await
  <2>5. pc'[r] = stage
    BY <2>4 DEF CInv, HInv, TypeOKHandler
  <2>6. LockShapeOf(r)'
    BY <2>4, <2>5 DEF LockShapeOf
  <2>7. stage \in Early \ {"new"} /\ stage # "bypassing" /\ pc[r] \in Early
    BY <1>1 DEF Early
  <2> QED BY <1>1, <1>3, <2>2, <2>3, <2>4, <2>6, <2>7, PassKeepsSInv
<1> QED BY <1>2, <1>3 DEF Arrive

LEMMA RecheckKeepsSInv ==
  ASSUME CInv, CInv', SInv, NEW r \in Requests, Recheck(r)
  PROVE  SInv'
<1>1. /\ pc[r] = "locked"
      /\ Lookup(Prompt(r), User(r), Model(r))
      /\ UNCHANGED <<ask, reply>>
  BY DEF Recheck
<1>2. ~ask[r].bypass
  BY <1>1 DEF SInv, ShapeOf, OnPath
<1>3. ASSUME NEW i \in TheHit(r), Take(i, r), GoOn(r, "serving"), Leave(r)
      PROVE  SInv'
  <2>1. OthersStay(r) /\ ~Holding(r)'
    BY <1>3, LeaveMoves DEF CInv
  <2> QED BY <1>1, <1>2, <1>3, <2>1, TakeKeepsSInv
<1>4. ASSUME Await(r, "forwarding"), UNCHANGED <<locks, got, body>>
      PROVE  SInv'
  <2>1. OthersStay(r) /\ Holding(r)'
    BY <1>1, <1>4, LocksStay DEF SInv, LockShapeOf
  <2>2. /\ lastId' = lastId
        /\ \A i \in Ids' : i \in Ids /\
             entries'[i].response.origin = entries[i].response.origin
    BY <1>1, LookupKeepsOrigins
  <2>3. pc' = [pc EXCEPT ![r] = "forwarding"]
    BY <1>4 DEF Await
  <2>4. pc'[r] = "forwarding"
    BY <2>3 DEF CInv, HInv, TypeOKHandler
  <2>5. LockShapeOf(r)'
    BY <2>1, <2>4 DEF LockShapeOf
  <2>6. "forwarding" \in Early \ {"new"} /\ pc[r] \in Early
    BY <1>1 DEF Early
  <2> QED BY <1>1, <1>2, <1>4, <2>1, <2>2, <2>3, <2>5, <2>6, PassKeepsSInv
<1> QED BY <1>3, <1>4 DEF Recheck

\* What a store leaves: the rows of other keys, and the new one.
LEMMA AnswerMissEntries ==
  ASSUME CInv, NEW r \in Requests, NEW form \in Forms, AnswerMiss(r, form)
  PROVE  /\ lastId' = lastId + 1
         /\ Ids' = (Ids \ SameKey(Prompt(r), User(r), Model(r))) \cup {lastId + 1}
         /\ lastId + 1 \notin Ids
         /\ entries'[lastId + 1] =
              [prompt |-> Prompt(r), user |-> User(r), model |-> Model(r),
               response |-> [origin |-> r, form |-> form],
               left |-> Ttl, hits |-> 0]
         /\ \A i \in Ids' \ {lastId + 1} : entries'[i] = entries[i]
         /\ log' = Detached(SameKey(Prompt(r), User(r), Model(r)))
<1> DEFINE row == [prompt |-> Prompt(r), user |-> User(r), model |-> Model(r),
                   response |-> [origin |-> r, form |-> form],
                   left |-> Ttl, hits |-> 0]
           old == SameKey(Prompt(r), User(r), Model(r))
<1>1. /\ lastId' = lastId + 1
      /\ entries' = [i \in (Ids \ old) \cup {lastId + 1} |->
                       IF i = lastId + 1 THEN row ELSE entries[i]]
      /\ log' = Detached(old)
  BY DEF AnswerMiss, Store, NewId
<1> HIDE DEF row, old
<1>2. lastId + 1 \notin Ids
  BY DEF CInv, TInv, TypeOK
<1>3. Ids' = (Ids \ old) \cup {lastId + 1}
  BY <1>1 DEF Ids
<1>4. entries'[lastId + 1] = row
  BY <1>1
<1>5. \A i \in Ids' \ {lastId + 1} : entries'[i] = entries[i]
  BY <1>1, <1>3
<1> QED BY <1>1, <1>2, <1>3, <1>4, <1>5 DEF row, old

LEMMA AnswerMissKeepsSInv ==
  ASSUME CInv, CInv', SInv, NEW r \in Requests, NEW form \in Forms,
         AnswerMiss(r, form)
  PROVE  SInv'
<1> DEFINE response == [origin |-> r, form |-> form]
<1>1. /\ pc[r] = "forwarding"
      /\ got' = [got EXCEPT ![r] = lastId + 1]
      /\ body' = [body EXCEPT ![r] = response]
      /\ pc' = [pc EXCEPT ![r] = "stored"]
      /\ UNCHANGED <<locks, ask, reply>>
  BY DEF AnswerMiss, GoOn
<1>2. response \in Responses /\ response.origin = r
  BY OwnAnswerFits
<1>3. /\ lastId' = lastId + 1
      /\ entries'[lastId + 1].response.origin = r
      /\ \A i \in Ids' \ {lastId + 1} : i \in Ids /\ entries'[i] = entries[i]
  <2>1. lastId' = lastId + 1
    BY AnswerMissEntries
  <2>2. entries'[lastId + 1].response = response
    <3>1. entries'[lastId + 1] =
            [prompt |-> Prompt(r), user |-> User(r), model |-> Model(r),
             response |-> response, left |-> Ttl, hits |-> 0]
      BY AnswerMissEntries
    <3> QED BY <3>1
  <2>3. \A i \in Ids' \ {lastId + 1} : i \in Ids /\ entries'[i] = entries[i]
    BY AnswerMissEntries
  <2> QED BY <2>1, <2>2, <2>3
<1> HIDE DEF response
<1>4. "stored" \in Stages \ {"new"} /\ "stored" \in Late
  BY DEF Stages, Late
<1>5. Alone(r, "stored")
  BY <1>1 DEF Alone, CInv, HInv, TypeOKHandler
<1>6. pc'[r] = "stored" /\ got'[r] = lastId + 1 /\ body'[r] = response
  BY <1>1 DEF CInv, HInv, TypeOKHandler
<1>7. response # None
  BY <1>2, ChatAssumption
<1>8. lastId <= lastId' /\ lastId + 1 <= lastId'
  BY <1>3 DEF CInv, TInv, TypeOK
<1>9. ShapeOf(r)'
  <2>1. ShapeOf(r) /\ pc[r] # "done" /\ ~ask[r].bypass
    BY <1>1 DEF SInv, ShapeOf, OnPath
  <2> QED BY <1>1, <1>2, <1>6, <1>7, <1>8, <2>1 DEF ShapeOf, Early, OnPath
<1>10. OthersStay(r) /\ Holding(r)'
  BY <1>1, LocksStay DEF SInv, LockShapeOf
<1>11. LockShapeOf(r)'
  BY <1>6, <1>10 DEF LockShapeOf
<1>12. EntriesOf(r)
  BY <1>3 DEF EntriesOf
<1> QED BY <1>4, <1>5, <1>8, <1>9, <1>10, <1>11, <1>12, RequestMoves

\* Entries that go, or only age.
LEMMA TablesOnlyKeepSInv ==
  ASSUME SInv, UNCHANGED <<locks, handler, lastId>>,
         \A i \in Ids' : i \in Ids /\
           entries'[i].response.origin = entries[i].response.origin
  PROVE  SInv'
<1>1. ASSUME NEW r \in Requests PROVE ShapeOf(r)' /\ LockShapeOf(r)'
  <2>1. ShapeOf(r)'
    BY DEF handler, SInv, ShapeOf
  <2>2. LockShapeOf(r)'
    BY DEF handler, locks, SInv, LockShapeOf, Holding, Queued
  <2> QED BY <2>1, <2>2
<1>2. OriginsAreLate'
  BY DEF handler, SInv, OriginsAreLate
<1>3. IsFiniteSet(Begun')
  BY DEF handler, SInv, Begun
<1> QED BY <1>1, <1>2, <1>3 DEF SInv

LEMMA AdminPurgeKeepsSInv ==
  ASSUME CInv, SInv, AdminPurge
  PROVE  SInv'
<1>1. /\ UNCHANGED <<locks, handler, lastId>>
      /\ \A i \in Ids' : i \in Ids /\ entries'[i] = entries[i]
  BY DEF AdminPurge, Purge, PurgeAll, Delete, Without, Ids
<1> QED BY <1>1, TablesOnlyKeepSInv

\* What the clock does to the entries.
LEMMA ClockEntries ==
  ASSUME CInv, Clock
  PROVE  /\ Ids' = Ids
         /\ \A i \in Ids : /\ entries'[i].prompt = entries[i].prompt
                           /\ entries'[i].user = entries[i].user
                           /\ entries'[i].model = entries[i].model
                           /\ entries'[i].response = entries[i].response
                           /\ entries'[i].hits = entries[i].hits
                           /\ entries'[i].left = Aged(entries[i].left)
<1>1. entries' = [i \in Ids |-> [entries[i] EXCEPT !.left = Aged(@)]]
  BY DEF Clock, Age
<1>2. Ids' = Ids
  BY <1>1 DEF Ids
<1>3. ASSUME NEW i \in Ids
      PROVE  /\ entries'[i].prompt = entries[i].prompt
             /\ entries'[i].user = entries[i].user
             /\ entries'[i].model = entries[i].model
             /\ entries'[i].response = entries[i].response
             /\ entries'[i].hits = entries[i].hits
             /\ entries'[i].left = Aged(entries[i].left)
  <2>1. entries[i] \in Entry
    BY DEF CInv, TInv, TypeOK
  <2>2. entries'[i] = [entries[i] EXCEPT !.left = Aged(entries[i].left)]
    BY <1>1
  <2> QED BY <2>1, <2>2 DEF Entry
<1> QED BY <1>2, <1>3

LEMMA ClockKeepsSInv ==
  ASSUME CInv, SInv, Clock
  PROVE  SInv'
<1>1. UNCHANGED <<locks, handler, lastId>>
  BY DEF Clock, Age
<1> QED BY <1>1, ClockEntries, TablesOnlyKeepSInv

LEMMA CrashKeepsSInv ==
  ASSUME CInv, SInv, Crash
  PROVE  SInv'
<1>1. /\ pc' = [r \in Requests |->
                  IF pc[r] \in {"new", "done", "lost"} THEN pc[r] ELSE "lost"]
      /\ lockOf' = [r \in Requests |-> None]
      /\ holder' = [l \in Requests |-> None]
      /\ UNCHANGED <<tables, ask, got, body, reply>>
  BY DEF Crash
<1>2. \A r \in Requests :
        pc'[r] = IF pc[r] \in {"new", "done", "lost"} THEN pc[r] ELSE "lost"
  BY <1>1
<1>3. ASSUME NEW r \in Requests PROVE ShapeOf(r)' /\ LockShapeOf(r)'
  <2>1. ShapeOf(r)
    BY DEF SInv
  <2>2. lastId' = lastId
    BY <1>1 DEF tables
  <2>3. ShapeOf(r)'
    BY <1>1, <1>2, <2>1, <2>2 DEF ShapeOf, OnPath, Early
  <2>4. LockShapeOf(r)'
    BY <1>1, <1>2 DEF LockShapeOf, Holding
  <2> QED BY <2>3, <2>4
<1>4. OriginsAreLate'
  <2> SUFFICES ASSUME NEW i \in Ids'
               PROVE  pc'[entries'[i].response.origin] \in Late
    BY DEF OriginsAreLate
  <2>1. i \in Ids /\ entries' = entries
    BY <1>1 DEF tables, Ids
  <2>2. /\ entries[i].response.origin \in Requests
        /\ pc[entries[i].response.origin] \in Late
    BY <2>1 DEF CInv, HInv, StoredProvenance, SInv, OriginsAreLate
  <2> QED BY <1>2, <2>1, <2>2 DEF Late
<1>5. IsFiniteSet(Begun')
  <2>1. Begun' = Begun
    BY <1>2 DEF Begun
  <2> QED BY <2>1 DEF SInv
<1> QED BY <1>3, <1>4, <1>5 DEF SInv

LEMMA StutterKeepsSInv == SInv /\ UNCHANGED vars => SInv'
<1> SUFFICES ASSUME SInv, UNCHANGED vars PROVE SInv'
  OBVIOUS
<1>1. /\ UNCHANGED <<locks, handler, lastId>>
      /\ \A i \in Ids' : i \in Ids /\ entries'[i] = entries[i]
  BY DEF vars, tables, Ids
<1> QED BY <1>1, TablesOnlyKeepSInv

LEMMA InitEstablishesSInv == Init => SInv
<1> SUFFICES ASSUME Init PROVE SInv
  OBVIOUS
<1>1. ASSUME NEW r \in Requests PROVE ShapeOf(r) /\ LockShapeOf(r)
  <2>1. /\ pc[r] = "new" /\ got[r] = NoEntry /\ body[r] = None
        /\ reply[r] = "none" /\ lockOf[r] = None /\ lastId = 0
    BY <1>1 DEF Init, InitTables, InitLocks
  <2> QED BY <2>1 DEF ShapeOf, LockShapeOf, OnPath, Early, NoEntry, Holding
<1>2. OriginsAreLate
  BY DEF Init, InitTables, OriginsAreLate, Ids
<1>3. IsFiniteSet(Begun)
  <2>1. Begun = {}
    BY DEF Init, Begun
  <2> QED BY <2>1, FS_EmptySet
<1> QED BY <1>1, <1>2, <1>3 DEF SInv

LEMMA NextPreservesSInv == CInv /\ SInv /\ [Next]_vars => SInv'
<1> SUFFICES ASSUME CInv, SInv, [Next]_vars PROVE SInv'
  OBVIOUS
<1>1. CInv'
  BY NextPreservesCInv
<1>2. ASSUME NEW r \in Requests, Arrival(r) PROVE SInv'
  BY <1>1, <1>2, RejectKeepsSInv, ArriveBypassKeepsSInv, ArriveKeepsSInv
  DEF Arrival
<1>3. ASSUME NEW r \in Requests, Serve(r) PROVE SInv'
  <2>1. ASSUME NEW form \in Forms, AnswerMiss(r, form) \/ AnswerBypass(r, form)
        PROVE  SInv'
    BY <1>1, <2>1, AnswerMissKeepsSInv, AnswerBypassKeepsSInv
  <2>2. ASSUME NEW failure \in Failures,
               FailMiss(r, failure) \/ FailBypass(r, failure)
        PROVE  SInv'
    BY <1>1, <2>2, FailMissKeepsSInv, FailBypassKeepsSInv
  <2> QED
    BY <1>1, <1>3, <2>1, <2>2, AcquireKeepsSInv, RecheckKeepsSInv,
       LogMissKeepsSInv, LogHitKeepsSInv
    DEF Serve
<1>4. CASE AdminPurge \/ Clock \/ Crash
  BY <1>4, AdminPurgeKeepsSInv, ClockKeepsSInv, CrashKeepsSInv
<1>5. CASE UNCHANGED vars
  BY <1>5, StutterKeepsSInv
<1> QED BY <1>2, <1>3, <1>4, <1>5 DEF Next, Quiet

\* What a request's local variables say fits the stage it is at, whatever the
\* order of requests, answers, failures, purges and kills.
THEOREM StagesInvariance == Spec => [](CInv /\ SInv)
<1>1. Init => CInv /\ SInv
  BY InitEstablishesCInv, InitEstablishesSInv
<1>2. CInv /\ SInv /\ [Next]_vars => CInv' /\ SInv'
  BY NextPreservesCInv, NextPreservesSInv
<1> QED BY <1>1, <1>2, PTL DEF Spec

-----------------------------------------------------------------------------
\* A request is inside its lock exactly while it is on its way to or from the
\* upstream, and while it waits it is in the lock's queue.
THEOREM LocksFollowStages == Spec => []LocksMatchStages
<1>1. SInv => LocksMatchStages
  BY DEF SInv, LockShapeOf, Queued, LocksMatchStages
<1> QED BY <1>1, StagesInvariance, PTL

\* Tables, locks and the handlers' local variables keep their types, and a
\* request that is about to be answered from the cache, or has stored its
\* answer, holds that answer.
THEOREM ChatTyped == Spec => []TypeOKChat
<1>1. CInv /\ SInv => TypeOKChat
  BY DEF CInv, TInv, LInv, HInv, TypeOKHandler, SInv, ShapeOf, TypeOKChat
<1> QED BY <1>1, StagesInvariance, PTL

\* Only requests that wait are in a queue.
QueuesWait ==
  \A l \in Requests : \A i \in DOMAIN waiters[l] : pc[waiters[l][i]] = "waiting"

\* A step of a request that is in no queue leaves the queues as they are.
LEMMA QueuesWaitStays ==
  ASSUME CInv, QueuesWait, waiters' = waiters,
         NEW r \in Requests, pc[r] # "waiting",
         \A s \in Requests \ {r} : pc'[s] = pc[s]
  PROVE  QueuesWait'
<1>1. \A l \in Requests : \A i \in DOMAIN waiters[l] : waiters[l][i] \in Requests
  BY DEF CInv, LInv, TypeOKLocks
<1>2. \A l \in Requests : \A i \in DOMAIN waiters[l] :
        pc'[waiters[l][i]] = "waiting"
  BY <1>1 DEF QueuesWait
<1> QED BY <1>2 DEF QueuesWait

\* A newcomer that does not get the lock is queued, and waits.
LEMMA ArriveKeepsQueuesWait ==
  ASSUME CInv, QueuesWait, NEW r \in Requests, Arrive(r)
  PROVE  QueuesWait'
<1>1. /\ pc[r] = "new" /\ pc \in [Requests -> Stages]
      /\ \A l \in Requests : waiters[l] \in Seq(Requests)
  BY DEF Arrive, CInv, HInv, TypeOKHandler, LInv, TypeOKLocks
<1>2. CASE UNCHANGED locks
  <2>1. \E stage : pc' = [pc EXCEPT ![r] = stage]
    BY DEF Arrive, GoOn, Await
  <2>2. \A s \in Requests \ {r} : pc'[s] = pc[s]
    BY <1>1, <2>1
  <2> QED BY <1>1, <1>2, <2>2, QueuesWaitStays DEF locks
<1>3. ASSUME Enter(r, Key(r)),
             IF holder'[lockOf'[r]] = r THEN GoOn(r, "locked")
                                        ELSE Await(r, "waiting")
      PROVE  QueuesWait'
  <2> DEFINE l == Registered(r, Key(r))
  <2>1. /\ lockOf'[r] = l /\ l \in Requests
        /\ \/ holder' = [holder EXCEPT ![l] = r] /\ waiters' = waiters
           \/ holder' = holder /\ waiters' = [waiters EXCEPT ![l] = Append(@, r)]
    <3>1. Key(r) \in Keys
      BY AskFields DEF CInv, HInv
    <3> QED BY <1>3, <3>1 DEF Enter, Registered, CInv, LInv, TypeOKLocks
  <2> HIDE DEF l
  <2>2. \A s \in Requests \ {r} : pc'[s] = pc[s]
    BY <1>1, <1>3 DEF GoOn, Await
  <2>3. CASE waiters' = waiters
    BY <1>1, <2>2, <2>3, QueuesWaitStays
  <2>4. CASE holder' = holder /\ waiters' = [waiters EXCEPT ![l] = Append(@, r)]
    <3>1. holder'[l] # r
      <4>1. lockOf[r] = None
        BY <1>3 DEF Enter
      <4> QED BY <2>1, <2>4, <4>1, LocksAssumption DEF CInv, LInv, HoldersSound
    <3>2. pc'[r] = "waiting"
      BY <1>1, <1>3, <2>1, <3>1 DEF Await
    <3>3. ASSUME NEW m \in Requests, NEW i \in DOMAIN waiters'[m]
          PROVE  \/ waiters'[m][i] = r
                 \/ i \in DOMAIN waiters[m] /\ waiters'[m][i] = waiters[m][i]
      BY <1>1, <2>1, <2>4, <3>3 DEF CInv, LInv, TypeOKLocks
    <3>4. \A m \in Requests : \A i \in DOMAIN waiters[m] :
            waiters[m][i] \in Requests /\ waiters[m][i] # r
      BY <1>1 DEF QueuesWait
    <3> QED BY <2>2, <3>2, <3>3, <3>4 DEF QueuesWait
  <2> QED BY <2>1, <2>3, <2>4
<1> QED BY <1>2, <1>3 DEF Arrive

\* The first of a queue leaves it and waits no longer; it is in no other.
LEMMA AcquireKeepsQueuesWait ==
  ASSUME CInv, QueuesWait, NEW r \in Requests, Acquire(r)
  PROVE  QueuesWait'
<1> DEFINE l == lockOf[r]
<1>1. /\ l \in Requests /\ waiters[l] # <<>> /\ Head(waiters[l]) = r
      /\ waiters' = [waiters EXCEPT ![l] = Tail(@)]
      /\ pc' = [pc EXCEPT ![r] = "locked"]
  BY DEF Acquire, Resume, GoOn, CInv, LInv, TypeOKLocks
<1>2. /\ \A m \in Requests : waiters[m] \in Seq(Requests)
      /\ waiters'[l] = Tail(waiters[l])
      /\ \A m \in Requests \ {l} : waiters'[m] = waiters[m]
      /\ \A s \in Requests \ {r} : pc'[s] = pc[s]
  BY <1>1 DEF CInv, LInv, TypeOKLocks, HInv, TypeOKHandler
<1>3. 1 \in DOMAIN waiters[l] /\ waiters[l][1] = r
  BY <1>1, <1>2
<1>4. \A m \in Requests : \A i \in DOMAIN waiters[m] :
        waiters[m][i] = r => m = l /\ i = 1
  BY <1>1, <1>3 DEF CInv, LInv, QueuesSound
<1> HIDE DEF l
<1>5. ASSUME NEW m \in Requests, NEW i \in DOMAIN waiters'[m]
      PROVE  pc'[waiters'[m][i]] = "waiting"
  <2>1. CASE m = l
    <3>1. /\ i + 1 \in DOMAIN waiters[l] /\ i + 1 # 1
          /\ waiters'[l][i] = waiters[l][i + 1]
      <4>1. /\ waiters[l] \in Seq(Requests) /\ waiters[l] # <<>>
            /\ waiters'[l] = Tail(waiters[l])
        BY <1>1, <1>2
      <4>2. /\ Tail(waiters[l]) \in Seq(Requests)
            /\ Len(waiters[l]) \in Nat \ {0}
            /\ Len(Tail(waiters[l])) = Len(waiters[l]) - 1
        BY <4>1
      <4>3. i \in 1 .. Len(Tail(waiters[l]))
        <5>1. i \in DOMAIN Tail(waiters[l])
          BY <1>5, <2>1, <4>1
        <5> QED BY <4>2, <5>1
      <4>4. Tail(waiters[l])[i] = waiters[l][i + 1]
        BY <4>1, <4>2, <4>3
      <4>5. DOMAIN waiters[l] = 1 .. Len(waiters[l])
        BY <4>1
      <4> QED BY <4>1, <4>2, <4>3, <4>4, <4>5
    <3>2. waiters[l][i + 1] \in Requests \ {r}
      BY <1>1, <1>2, <1>4, <3>1
    <3> QED BY <1>1, <1>2, <2>1, <3>1, <3>2 DEF QueuesWait
  <2>2. CASE m # l
    <3>1. waiters'[m] = waiters[m] /\ waiters[m][i] \in Requests \ {r}
      BY <1>2, <1>4, <1>5, <2>2
    <3> QED BY <1>2, <1>5, <3>1 DEF QueuesWait
  <2> QED BY <2>1, <2>2
<1> QED BY <1>5 DEF QueuesWait

LEMMA NextKeepsQueuesWait ==
  ASSUME CInv, QueuesWait, [Next]_vars
  PROVE  QueuesWait'
<1>1. pc \in [Requests -> Stages]
  BY DEF CInv, HInv, TypeOKHandler
<1>2. ASSUME NEW r \in Requests, NEW stage, pc[r] # "waiting",
             pc' = [pc EXCEPT ![r] = stage], waiters' = waiters
      PROVE  QueuesWait'
  <2>1. \A s \in Requests \ {r} : pc'[s] = pc[s]
    BY <1>1, <1>2
  <2> QED BY <1>2, <2>1, QueuesWaitStays
<1>3. ASSUME NEW r \in Requests, Arrival(r) PROVE QueuesWait'
  <2>1. CASE Reject(r)
    BY <1>2, <2>1 DEF Reject, Finish, Await, locks
  <2>2. CASE ArriveBypass(r)
    BY <1>2, <2>2 DEF ArriveBypass, Await, locks
  <2> QED BY <1>3, <2>1, <2>2, ArriveKeepsQueuesWait DEF Arrival
<1>4. ASSUME NEW r \in Requests, Serve(r) PROVE QueuesWait'
  <2>1. CASE Recheck(r)
    BY <1>2, <2>1 DEF Recheck, GoOn, Await, Leave, locks
  <2>2. CASE LogMiss(r) \/ LogHit(r)
    BY <1>2, <2>2 DEF LogMiss, LogHit, Finish, Await, Leave, locks
  <2>3. ASSUME NEW form \in Forms, AnswerMiss(r, form) \/ AnswerBypass(r, form)
        PROVE  QueuesWait'
    BY <1>2, <2>3 DEF AnswerMiss, AnswerBypass, GoOn, Finish, Await, locks
  <2>4. ASSUME NEW failure \in Failures,
               FailMiss(r, failure) \/ FailBypass(r, failure)
        PROVE  QueuesWait'
    BY <1>2, <2>4 DEF FailMiss, FailBypass, Finish, Await, Leave, locks
  <2> QED
    BY <1>4, <2>1, <2>2, <2>3, <2>4, AcquireKeepsQueuesWait DEF Serve
<1>5. CASE AdminPurge \/ Clock \/ UNCHANGED vars
  BY <1>5 DEF AdminPurge, Clock, vars, locks, handler, QueuesWait
<1>6. CASE Crash
  BY <1>6 DEF Crash, QueuesWait
<1> QED BY <1>3, <1>4, <1>5, <1>6 DEF Next, Quiet

\* No request waits for a lock that will not be handed to it, after whatever
\* failures, exceptions and kills.
THEOREM NobodyIsStranded == Spec => []NobodyStranded
<1>1. Init => QueuesWait
  BY DEF Init, InitLocks, QueuesWait
<1>2. CInv /\ QueuesWait /\ [Next]_vars => QueuesWait'
  BY NextKeepsQueuesWait
<1>3. CInv /\ SInv /\ QueuesWait => NobodyStranded
  <2> SUFFICES ASSUME CInv, SInv, QueuesWait, NEW r \in Requests, pc[r] = "waiting"
               PROVE  LET l == lockOf[r]
                      IN  \/ /\ holder[l] # None
                             /\ lockOf[holder[l]] = l
                             /\ pc[holder[l]] \in {"locked", "forwarding", "stored"}
                          \/ /\ holder[l] = None /\ waiters[l] # <<>>
                             /\ lockOf[Head(waiters[l])] = l
                             /\ pc[Head(waiters[l])] = "waiting"
    BY DEF NobodyStranded
  <2> DEFINE l == lockOf[r]
  <2>1. l \in Requests /\ \E i \in DOMAIN waiters[l] : waiters[l][i] = r
    BY DEF SInv, LockShapeOf, Queued
  <2>2. waiters[l] \in Seq(Requests) /\ holder[l] \in Requests \cup {None}
    BY <2>1 DEF CInv, LInv, TypeOKLocks
  <2>3. CASE holder[l] # None
    <3>1. holder[l] \in Requests /\ lockOf[holder[l]] = l
      BY <2>1, <2>2, <2>3 DEF CInv, LInv, HoldersSound
    <3>2. Holding(holder[l])
      BY <2>1, <3>1, LocksAssumption DEF Holding
    <3>3. pc[holder[l]] \in {"locked", "forwarding", "stored"}
      BY <3>1, <3>2 DEF SInv, LockShapeOf
    <3> QED BY <2>3, <3>1, <3>3
  <2>4. CASE holder[l] = None
    <3>1. /\ waiters[l] # <<>> /\ 1 \in DOMAIN waiters[l]
          /\ Head(waiters[l]) = waiters[l][1]
      BY <2>1, <2>2
    <3>2. lockOf[waiters[l][1]] = l /\ pc[waiters[l][1]] = "waiting"
      BY <2>1, <3>1 DEF CInv, LInv, QueuesSound, QueuesWait
    <3> QED BY <2>4, <3>1, <3>2
  <2> QED BY <2>3, <2>4
<1> QED BY <1>1, <1>2, <1>3, StagesInvariance, PTL DEF Spec

-----------------------------------------------------------------------------
(* The handler implements AnswerCache: its variables, and which step of the *)
(* abstract specification each step of the handler is.                      *)

StateOf == [r \in Requests |-> Progress(r)]

AnswerOf(r) == IF body[r] = None THEN None ELSE body[r].origin
Answers == [r \in Requests |-> AnswerOf(r)]

Unexpired == {i \in Ids : ~PastExpiry(i)}
Known == {entries[i].response.origin : i \in Unexpired}

AbstractStep == AC!Next \/ UNCHANGED AC!vars

LEMMA MappedVariables ==
  /\ AC!vars = <<ask, StateOf, Answers, Known>>
  /\ \A r, s : AC!Becomes(r, s) <=> StateOf' = [StateOf EXCEPT ![r] = s]
  /\ \A r, o : AC!Holds(r, o) <=> Answers' = [Answers EXCEPT ![r] = o]
BY DEF AC!vars, AC!Becomes, AC!Holds, StateOf, Answers, AnswerOf, Known, Unexpired

\* A step of one request changes the progress and the answer of that one.
LEMMA OneProgresses ==
  ASSUME CInv, NEW r \in Requests, NEW stage,
         pc' = [pc EXCEPT ![r] = stage],
         \A s \in Requests \ {r} : body'[s] = body[s] /\ reply'[s] = reply[s]
  PROVE  /\ pc'[r] = stage
         /\ StateOf' = [StateOf EXCEPT ![r] = Progress(r)']
         /\ Answers' = [Answers EXCEPT ![r] = AnswerOf(r)']
<1>1. \A s \in Requests : pc'[s] = IF s = r THEN stage ELSE pc[s]
  BY DEF CInv, HInv, TypeOKHandler
<1>2. \A s \in Requests \ {r} :
        Progress(s)' = Progress(s) /\ AnswerOf(s)' = AnswerOf(s)
  BY <1>1 DEF Progress, AnswerOf
<1> QED BY <1>1, <1>2 DEF StateOf, Answers

\* The same, where the request keeps what it has.
LEMMA OneMoves ==
  ASSUME CInv, NEW r \in Requests, NEW stage,
         pc' = [pc EXCEPT ![r] = stage], body' = body,
         \A s \in Requests \ {r} : reply'[s] = reply[s]
  PROVE  /\ pc'[r] = stage
         /\ StateOf' = [StateOf EXCEPT ![r] = Progress(r)']
         /\ Answers' = Answers
<1>1. AnswerOf(r)' = AnswerOf(r)
  BY DEF AnswerOf
<1>2. /\ pc'[r] = stage
      /\ StateOf' = [StateOf EXCEPT ![r] = Progress(r)']
      /\ Answers' = [Answers EXCEPT ![r] = AnswerOf(r)']
  BY OneProgresses
<1> QED BY <1>1, <1>2 DEF Answers

LEMMA SameKnown ==
  ASSUME entries' = entries
  PROVE  Known' = Known
BY DEF Known, Unexpired, Ids, PastExpiry

\* A lookup forgets nothing that was not forgotten by expiring.
LEMMA LookupKeepsKnown ==
  ASSUME CInv, NEW r \in Requests, Lookup(Prompt(r), User(r), Model(r))
  PROVE  Known' = Known
<1> DEFINE p == Prompt(r)
           u == User(r)
           m == Model(r)
<1>1. p \in Prompts /\ u \in Users /\ m \in Models
  BY AskFields DEF CInv, HInv
<1>2. Lookup(p, u, m)
  OBVIOUS
<1> HIDE DEF p, u, m
<1>3. /\ Ids' \subseteq Ids
      /\ \A i \in Ids \ Ids' : PastExpiry(i)
      /\ \A i \in Ids' : /\ entries'[i].response = entries[i].response
                         /\ entries'[i].left = entries[i].left
  BY <1>1, <1>2, LookupKeepsRows DEF CInv
<1>4. Unexpired' = Unexpired
  BY <1>3 DEF Unexpired, PastExpiry
<1>5. \A i \in Unexpired : entries'[i].response = entries[i].response
  BY <1>3, <1>4 DEF Unexpired
<1> QED BY <1>4, <1>5 DEF Known

\* The steps of the abstract specification, from their effects.
LEMMA FailStep ==
  ASSUME NEW r \in Requests, Progress(r) \in {"idle", "pending"},
         StateOf' = [StateOf EXCEPT ![r] = "failed"],
         ask' = ask, Answers' = Answers, Known' = Known
  PROVE  AC!Next
<1>1. AC!Becomes(r, "failed")
  BY MappedVariables
<1>2. AC!Fail(r)
  BY <1>1 DEF AC!Fail, StateOf, Answers, AnswerOf, Known, Unexpired
<1> QED BY <1>2 DEF AC!Next

LEMMA AskStep ==
  ASSUME NEW r \in Requests, Progress(r) = "idle",
         StateOf' = [StateOf EXCEPT ![r] = "pending"],
         ask' = ask, Answers' = Answers, Known' = Known
  PROVE  AC!Next
<1>1. AC!Becomes(r, "pending")
  BY MappedVariables
<1>2. AC!Ask(r)
  BY <1>1 DEF AC!Ask, StateOf, Answers, AnswerOf, Known, Unexpired
<1> QED BY <1>2 DEF AC!Next

LEMMA DeliverStep ==
  ASSUME NEW r \in Requests, Progress(r) = "holding",
         \/ StateOf' = [StateOf EXCEPT ![r] = "answered"]
         \/ StateOf' = [StateOf EXCEPT ![r] = "failed"],
         ask' = ask, Answers' = Answers, Known' = Known
  PROVE  AC!Next
<1>1. AC!Becomes(r, "answered") \/ AC!Becomes(r, "failed")
  BY MappedVariables
<1>2. AC!Deliver(r)
  BY <1>1 DEF AC!Deliver, StateOf, Answers, AnswerOf, Known, Unexpired
<1> QED BY <1>2 DEF AC!Next

LEMMA ObtainPrivatelyStep ==
  ASSUME NEW r \in Requests, Progress(r) = "pending",
         ask[r] \in {a \in Asks : a.bypass},
         \/ StateOf' = [StateOf EXCEPT ![r] = "answered"]
         \/ StateOf' = [StateOf EXCEPT ![r] = "failed"],
         ask' = ask, Answers' = [Answers EXCEPT ![r] = r], Known' = Known
  PROVE  AC!Next
<1>1. /\ AC!Becomes(r, "answered") \/ AC!Becomes(r, "failed")
      /\ AC!Holds(r, r)
  BY MappedVariables
<1>2. AC!ObtainPrivately(r)
  BY <1>1 DEF AC!ObtainPrivately, StateOf, Known, Unexpired
<1> QED BY <1>2 DEF AC!Next

LEMMA ObtainStep ==
  ASSUME NEW r \in Requests, Progress(r) = "pending",
         ask[r] \notin {a \in Asks : a.bypass},
         StateOf' = [StateOf EXCEPT ![r] = "holding"],
         ask' = ask, Answers' = [Answers EXCEPT ![r] = r],
         Known' \subseteq Known \cup {r}
  PROVE  AC!Next
<1>1. AC!Becomes(r, "holding") /\ AC!Holds(r, r)
  BY MappedVariables
<1>2. AC!Obtain(r)
  BY <1>1 DEF AC!Obtain, StateOf, Known, Unexpired
<1> QED BY <1>2 DEF AC!Next

LEMMA ReuseStep ==
  ASSUME NEW r \in Requests, Progress(r) \in {"idle", "pending"},
         ask[r] \notin {a \in Asks : a.bypass},
         NEW o \in Known, <<ask[r], ask[o]>> \in Suits,
         StateOf' = [StateOf EXCEPT ![r] = "holding"],
         ask' = ask, Answers' = [Answers EXCEPT ![r] = o], Known' = Known
  PROVE  AC!Next
<1>1. AC!Becomes(r, "holding") /\ AC!Holds(r, o)
  BY MappedVariables
<1>2. AC!Reuse(r)
  BY <1>1 DEF AC!Reuse, StateOf, Known, Unexpired
<1> QED BY <1>2 DEF AC!Next

LEMMA ForgetStep ==
  ASSUME UNCHANGED handler, Known' \subseteq Known
  PROVE  AC!Next
<1>1. StateOf' = StateOf /\ Answers' = Answers /\ ask' = ask
  BY DEF handler, StateOf, Progress, Answers, AnswerOf
<1>2. AC!Forget
  BY <1>1 DEF AC!Forget, StateOf, Answers, AnswerOf, Known, Unexpired
<1> QED BY <1>2 DEF AC!Next

\* Steps that the abstract specification does not see.
LEMMA HiddenStep ==
  ASSUME NEW r \in Requests, StateOf' = [StateOf EXCEPT ![r] = Progress(r)],
         ask' = ask, Answers' = Answers, Known' = Known
  PROVE  UNCHANGED AC!vars
<1>1. StateOf' = StateOf
  BY DEF StateOf
<1> QED BY <1>1, MappedVariables DEF AC!vars, StateOf, Answers, AnswerOf, Known, Unexpired

\* Who ends without an answer, and who ends with the one it holds.
LEMMA FailureIsFail ==
  ASSUME CInv, NEW r \in Requests, NEW outcome \in {"ERROR", "500", "4xx"},
         Finish(r, outcome), Progress(r) \in {"idle", "pending"},
         UNCHANGED <<ask, body, entries>>
  PROVE  AC!Next
<1>1. /\ pc' = [pc EXCEPT ![r] = "done"]
      /\ reply' = [reply EXCEPT ![r] = outcome]
  BY DEF Finish, Await
<1>2. reply'[r] = outcome /\ \A s \in Requests \ {r} : reply'[s] = reply[s]
  BY <1>1 DEF CInv, HInv, TypeOKHandler
<1>3. /\ pc'[r] = "done"
      /\ StateOf' = [StateOf EXCEPT ![r] = Progress(r)']
      /\ Answers' = Answers
  BY <1>1, <1>2, OneMoves
<1>4. Progress(r)' = "failed"
  BY <1>2, <1>3 DEF Progress
<1> QED BY <1>3, <1>4, SameKnown, FailStep

LEMMA LoggingIsDeliver ==
  ASSUME CInv, NEW r \in Requests, NEW outcome \in Replies,
         Finish(r, outcome), Progress(r) = "holding",
         UNCHANGED <<ask, body, entries>>
  PROVE  AC!Next
<1>1. /\ pc' = [pc EXCEPT ![r] = "done"]
      /\ reply' = [reply EXCEPT ![r] = outcome]
  BY DEF Finish, Await
<1>2. \A s \in Requests \ {r} : reply'[s] = reply[s]
  BY <1>1 DEF CInv, HInv, TypeOKHandler
<1>3. /\ pc'[r] = "done"
      /\ StateOf' = [StateOf EXCEPT ![r] = Progress(r)']
      /\ Answers' = Answers
  BY <1>1, <1>2, OneMoves
<1>4. Progress(r)' = "answered" \/ Progress(r)' = "failed"
  BY <1>3 DEF Progress
<1> QED BY <1>3, <1>4, SameKnown, DeliverStep

LEMMA HitIsReuse ==
  ASSUME CInv, SInv, NEW r \in Requests, NEW i \in TheHit(r),
         Lookup(Prompt(r), User(r), Model(r)), Take(i, r), GoOn(r, "serving"),
         UNCHANGED <<ask, reply>>, ~ask[r].bypass, pc[r] \in {"new", "locked"}
  PROVE  AC!Next
<1> DEFINE o == entries[i].response.origin
<1>1. /\ i \in Ids /\ ~PastExpiry(i)
      /\ entries[i].response \in Responses
      /\ Fits(o, r)
  BY HitFits DEF CInv, HInv
<1>2. entries[i].response # None /\ o \in Requests
  BY <1>1, ChatAssumption
<1>3. o \in Known
  BY <1>1 DEF Known, Unexpired
<1>4. body' = [body EXCEPT ![r] = entries[i].response]
      /\ pc' = [pc EXCEPT ![r] = "serving"]
  BY DEF Take, GoOn
<1>5. /\ body'[r] = entries[i].response
      /\ \A s \in Requests \ {r} : body'[s] = body[s] /\ reply'[s] = reply[s]
  BY <1>4 DEF CInv, HInv, TypeOKHandler
<1>6. AnswerOf(r)' = o
  BY <1>2, <1>5 DEF AnswerOf
<1> HIDE DEF o
<1>7. /\ pc'[r] = "serving"
      /\ StateOf' = [StateOf EXCEPT ![r] = Progress(r)']
      /\ Answers' = [Answers EXCEPT ![r] = AnswerOf(r)']
  BY <1>4, <1>5, OneProgresses
<1>8. Progress(r)' = "holding" /\ Progress(r) \in {"idle", "pending"}
  BY <1>7 DEF Progress
<1>9. <<ask[r], ask[o]>> \in Suits
  <2>1. ask[r] \in Asks /\ ask[o] \in Asks
    BY <1>2 DEF CInv, HInv, TypeOKHandler
  <2> QED BY <1>1, <2>1 DEF Suits, Fits, User, Model, Prompt
<1>10. Known' = Known
  BY LookupKeepsKnown
<1> QED BY <1>3, <1>6, <1>7, <1>8, <1>9, <1>10, ReuseStep

LEMMA ArriveIsReuseOrAsk ==
  ASSUME CInv, SInv, NEW r \in Requests, Arrive(r)
  PROVE  AC!Next
<1>1. /\ pc[r] = "new" /\ ~ask[r].bypass
      /\ Lookup(Prompt(r), User(r), Model(r))
      /\ UNCHANGED <<ask, reply>>
  BY DEF Arrive
<1>2. ASSUME NEW i \in TheHit(r), Take(i, r), GoOn(r, "serving") PROVE AC!Next
  BY <1>1, <1>2, HitIsReuse
<1>3. ASSUME body' = body, GoOn(r, "locked") \/ Await(r, "waiting")
      PROVE  AC!Next
  <2>1. PICK stage \in {"locked", "waiting"} : pc' = [pc EXCEPT ![r] = stage]
    BY <1>3 DEF GoOn, Await
  <2>2. /\ pc'[r] = stage
        /\ StateOf' = [StateOf EXCEPT ![r] = Progress(r)']
        /\ Answers' = Answers
    BY <1>1, <1>3, <2>1, OneMoves
  <2>3. Progress(r) = "idle" /\ Progress(r)' = "pending"
    BY <1>1, <2>2 DEF Progress
  <2> QED BY <1>1, <2>2, <2>3, LookupKeepsKnown, AskStep
<1> QED BY <1>2, <1>3 DEF Arrive

LEMMA RecheckIsReuseOrHidden ==
  ASSUME CInv, SInv, NEW r \in Requests, Recheck(r)
  PROVE  AbstractStep
<1>1. /\ pc[r] = "locked"
      /\ Lookup(Prompt(r), User(r), Model(r))
      /\ UNCHANGED <<ask, reply>>
  BY DEF Recheck
<1>2. ~ask[r].bypass
  BY <1>1 DEF SInv, ShapeOf, OnPath
<1>3. ASSUME NEW i \in TheHit(r), Take(i, r), GoOn(r, "serving") PROVE AC!Next
  BY <1>1, <1>2, <1>3, HitIsReuse
<1>4. ASSUME body' = body, Await(r, "forwarding") PROVE UNCHANGED AC!vars
  <2>1. pc' = [pc EXCEPT ![r] = "forwarding"]
    BY <1>4 DEF Await
  <2>2. /\ pc'[r] = "forwarding"
        /\ StateOf' = [StateOf EXCEPT ![r] = Progress(r)']
        /\ Answers' = Answers
    BY <1>1, <1>4, <2>1, OneMoves
  <2>3. Progress(r)' = Progress(r)
    BY <1>1, <2>2 DEF Progress
  <2> QED BY <1>1, <2>2, <2>3, LookupKeepsKnown, HiddenStep
<1> QED BY <1>3, <1>4 DEF Recheck, AbstractStep

LEMMA AcquireIsHidden ==
  ASSUME CInv, NEW r \in Requests, Acquire(r)
  PROVE  UNCHANGED AC!vars
<1>1. /\ pc[r] = "waiting" /\ pc' = [pc EXCEPT ![r] = "locked"]
      /\ UNCHANGED <<ask, body, reply, entries>>
  BY DEF Acquire, GoOn, tables
<1>2. /\ pc'[r] = "locked"
      /\ StateOf' = [StateOf EXCEPT ![r] = Progress(r)']
      /\ Answers' = Answers
  BY <1>1, OneMoves
<1>3. Progress(r)' = Progress(r)
  BY <1>1, <1>2 DEF Progress
<1> QED BY <1>1, <1>2, <1>3, SameKnown, HiddenStep

LEMMA ArriveBypassIsAsk ==
  ASSUME CInv, NEW r \in Requests, ArriveBypass(r)
  PROVE  AC!Next
<1>1. /\ pc[r] = "new" /\ pc' = [pc EXCEPT ![r] = "bypassing"]
      /\ UNCHANGED <<ask, body, reply, entries>>
  BY DEF ArriveBypass, Await, tables
<1>2. /\ pc'[r] = "bypassing"
      /\ StateOf' = [StateOf EXCEPT ![r] = Progress(r)']
      /\ Answers' = Answers
  BY <1>1, OneMoves
<1>3. Progress(r) = "idle" /\ Progress(r)' = "pending"
  BY <1>1, <1>2 DEF Progress
<1> QED BY <1>1, <1>2, <1>3, SameKnown, AskStep

LEMMA AnswerMissIsObtain ==
  ASSUME CInv, SInv, NEW r \in Requests, NEW form \in Forms, AnswerMiss(r, form)
  PROVE  AC!Next
<1> DEFINE response == [origin |-> r, form |-> form]
<1>1. /\ pc[r] = "forwarding"
      /\ body' = [body EXCEPT ![r] = response]
      /\ pc' = [pc EXCEPT ![r] = "stored"]
      /\ UNCHANGED <<ask, reply>>
  BY DEF AnswerMiss, GoOn
<1>2. response # None /\ response.origin = r
  BY OwnAnswerFits, ChatAssumption
<1>3. /\ entries'[lastId + 1].response = response
      /\ Ids' \ {lastId + 1} \subseteq Ids
      /\ \A i \in Ids' \ {lastId + 1} : entries'[i] = entries[i]
  <2>1. entries'[lastId + 1] =
          [prompt |-> Prompt(r), user |-> User(r), model |-> Model(r),
           response |-> response, left |-> Ttl, hits |-> 0]
    BY AnswerMissEntries
  <2>2. Ids' = (Ids \ SameKey(Prompt(r), User(r), Model(r))) \cup {lastId + 1}
    BY AnswerMissEntries
  <2>3. \A i \in Ids' \ {lastId + 1} : entries'[i] = entries[i]
    BY AnswerMissEntries
  <2> QED BY <2>1, <2>2, <2>3
<1> HIDE DEF response
<1>4. Known' \subseteq Known \cup {r}
  BY <1>2, <1>3 DEF Known, Unexpired, PastExpiry
<1>5. /\ body'[r] = response
      /\ \A s \in Requests \ {r} : body'[s] = body[s] /\ reply'[s] = reply[s]
  BY <1>1 DEF CInv, HInv, TypeOKHandler
<1>6. AnswerOf(r)' = r
  BY <1>2, <1>5 DEF AnswerOf
<1>7. /\ pc'[r] = "stored"
      /\ StateOf' = [StateOf EXCEPT ![r] = Progress(r)']
      /\ Answers' = [Answers EXCEPT ![r] = AnswerOf(r)']
  BY <1>1, <1>5, OneProgresses
<1>8. Progress(r)' = "holding" /\ Progress(r) = "pending"
  BY <1>1, <1>7 DEF Progress
<1>9. ask[r] \notin {a \in Asks : a.bypass}
  BY <1>1 DEF SInv, ShapeOf, OnPath
<1> QED BY <1>1, <1>4, <1>6, <1>7, <1>8, <1>9, ObtainStep

LEMMA AnswerBypassIsObtainPrivately ==
  ASSUME CInv, SInv, NEW r \in Requests, NEW form \in Forms,
         AnswerBypass(r, form)
  PROVE  AC!Next
<1> DEFINE response == [origin |-> r, form |-> form]
           outcome == Outcome("BYPASS", response)
<1>1. /\ pc[r] = "bypassing"
      /\ body' = [body EXCEPT ![r] = response]
      /\ Finish(r, outcome)
      /\ UNCHANGED <<ask, entries>>
  BY DEF AnswerBypass, LogRequest, tables
<1>2. response # None /\ response.origin = r
  BY OwnAnswerFits, ChatAssumption
<1> HIDE DEF response, outcome
<1>3. /\ pc' = [pc EXCEPT ![r] = "done"]
      /\ reply' = [reply EXCEPT ![r] = outcome]
  BY <1>1 DEF Finish, Await
<1>4. /\ body'[r] = response
      /\ \A s \in Requests \ {r} : body'[s] = body[s] /\ reply'[s] = reply[s]
  BY <1>1, <1>3 DEF CInv, HInv, TypeOKHandler
<1>5. AnswerOf(r)' = r
  BY <1>2, <1>4 DEF AnswerOf
<1>6. /\ pc'[r] = "done"
      /\ StateOf' = [StateOf EXCEPT ![r] = Progress(r)']
      /\ Answers' = [Answers EXCEPT ![r] = AnswerOf(r)']
  BY <1>3, <1>4, OneProgresses
<1>7. /\ Progress(r)' = "answered" \/ Progress(r)' = "failed"
      /\ Progress(r) = "pending"
  BY <1>1, <1>6 DEF Progress
<1>8. ask[r] \in {a \in Asks : a.bypass}
  BY <1>1 DEF SInv, ShapeOf, CInv, HInv, TypeOKHandler
<1> QED BY <1>1, <1>5, <1>6, <1>7, <1>8, SameKnown, ObtainPrivatelyStep

LEMMA AdminPurgeIsForget == CInv /\ AdminPurge => AC!Next
<1> SUFFICES ASSUME CInv, AdminPurge PROVE AC!Next
  OBVIOUS
<1>1. Ids' \subseteq Ids /\ \A i \in Ids' : entries'[i] = entries[i]
  BY DEF AdminPurge, Purge, PurgeAll, Delete, Without, Ids
<1>2. Known' \subseteq Known
  BY <1>1 DEF Known, Unexpired, PastExpiry
<1> QED BY <1>2, ForgetStep DEF AdminPurge

LEMMA ClockIsForget == CInv /\ Clock => AC!Next
<1> SUFFICES ASSUME CInv, Clock PROVE AC!Next
  OBVIOUS
<1>1. /\ Ids' = Ids
      /\ \A i \in Ids : /\ entries'[i].response = entries[i].response
                        /\ entries'[i].left = Aged(entries[i].left)
  BY ClockEntries
<1>2. Unexpired' \subseteq Unexpired
  BY <1>1 DEF Unexpired, PastExpiry, Aged
<1>3. Known' \subseteq Known
  BY <1>1, <1>2 DEF Known, Unexpired
<1> QED BY <1>3, ForgetStep DEF Clock

LEMMA CrashIsLose == CInv /\ Crash => AC!Next
<1> SUFFICES ASSUME CInv, Crash PROVE AC!Next
  OBVIOUS
<1>1. /\ pc' = [r \in Requests |->
                  IF pc[r] \in {"new", "done", "lost"} THEN pc[r] ELSE "lost"]
      /\ UNCHANGED <<ask, body, reply, entries>>
  BY DEF Crash, tables
<1>2. ASSUME NEW r \in Requests
      PROVE  Progress(r)' = IF Progress(r) \in {"pending", "holding"} THEN "lost"
                                                                  ELSE Progress(r)
  <2>1. pc[r] \in Stages
    BY DEF CInv, HInv, TypeOKHandler
  <2>2. pc'[r] = IF pc[r] \in {"new", "done", "lost"} THEN pc[r] ELSE "lost"
    BY <1>1
  <2> QED BY <1>1, <2>1, <2>2 DEF Progress, Stages
<1>3. StateOf' = [r \in Requests |->
                    IF StateOf[r] \in {"pending", "holding"} THEN "lost"
                                                           ELSE StateOf[r]]
  BY <1>2 DEF StateOf
<1>4. Answers' = Answers /\ Known' = Known
  BY <1>1, SameKnown DEF Answers, AnswerOf
<1>5. AC!Lose
  BY <1>1, <1>3, <1>4 DEF AC!Lose, StateOf, Answers, AnswerOf, Known, Unexpired
<1> QED BY <1>5 DEF AC!Next

LEMMA StutterIsHidden == UNCHANGED vars => UNCHANGED AC!vars
<1> SUFFICES ASSUME UNCHANGED vars PROVE UNCHANGED AC!vars
  OBVIOUS
<1>1. UNCHANGED <<entries, ask, pc, body, reply>>
  BY DEF vars, tables, handler
<1>2. StateOf' = StateOf /\ Answers' = Answers /\ Known' = Known
  BY <1>1, SameKnown DEF StateOf, Progress, Answers, AnswerOf
<1> QED BY <1>1, <1>2, MappedVariables DEF AC!vars, StateOf, Answers, AnswerOf,
                                            Known, Unexpired

LEMMA InitIsAbstract == Init => AC!Init
<1> SUFFICES ASSUME Init PROVE AC!Init
  OBVIOUS
<1>1. /\ StateOf = [r \in Requests |-> "idle"]
      /\ Answers = [r \in Requests |-> None]
  BY DEF Init, StateOf, Progress, Answers, AnswerOf
<1>2. Known = {}
  BY DEF Init, InitTables, Known, Unexpired, Ids
<1>3. ask \in [Requests -> Asks]
  BY DEF Init
<1> QED BY <1>1, <1>2, <1>3
        DEF AC!Init, StateOf, Answers, AnswerOf, Known, Unexpired

\* Every step of the handler is a step of AnswerCache or hidden from it.
LEMMA NextIsAbstractStep ==
  CInv /\ SInv /\ [Next]_vars => [AC!Next]_(AC!vars)
<1> SUFFICES ASSUME CInv, SInv, [Next]_vars PROVE AbstractStep
  BY DEF AbstractStep
<1>1. ASSUME NEW r \in Requests, Reject(r) PROVE AC!Next
  <2>1. /\ pc[r] = "new" /\ Finish(r, "4xx")
        /\ UNCHANGED <<ask, body, entries>>
    BY <1>1 DEF Reject, tables
  <2>2. Progress(r) = "idle"
    BY <2>1 DEF Progress
  <2> QED BY <2>1, <2>2, FailureIsFail
<1>2. ASSUME NEW r \in Requests, NEW failure,
             FailMiss(r, failure) \/ FailBypass(r, failure)
      PROVE  AC!Next
  <2>1. /\ pc[r] \in {"forwarding", "bypassing"}
        /\ Finish(r, "ERROR") \/ Finish(r, "500")
        /\ UNCHANGED <<ask, body, entries>>
    BY <1>2 DEF FailMiss, FailBypass, LogRequest, tables
  <2>2. Progress(r) = "pending"
    BY <2>1 DEF Progress
  <2> QED BY <2>1, <2>2, FailureIsFail
<1>3. ASSUME NEW r \in Requests, LogMiss(r) \/ LogHit(r)
      PROVE  AC!Next
  <2>1. /\ pc[r] \in {"stored", "serving"}
        /\ Finish(r, Outcome("MISS", body[r])) \/ Finish(r, Outcome("HIT", body[r]))
        /\ UNCHANGED <<ask, body, entries>>
    BY <1>3 DEF LogMiss, LogHit, LogRequest, tables
  <2>2. /\ Outcome("MISS", body[r]) \in Replies
        /\ Outcome("HIT", body[r]) \in Replies
    BY DEF Outcome, Replies, Outcomes
  <2>3. Progress(r) = "holding"
    BY <2>1 DEF Progress
  <2> QED BY <2>1, <2>2, <2>3, LoggingIsDeliver
<1>4. ASSUME NEW r \in Requests, Arrival(r) PROVE AbstractStep
  BY <1>1, <1>4, ArriveBypassIsAsk, ArriveIsReuseOrAsk DEF Arrival, AbstractStep
<1>5. ASSUME NEW r \in Requests, Serve(r) PROVE AbstractStep
  <2>1. ASSUME NEW form \in Forms, AnswerMiss(r, form) \/ AnswerBypass(r, form)
        PROVE  AC!Next
    BY <2>1, AnswerMissIsObtain, AnswerBypassIsObtainPrivately
  <2> QED
    BY <1>2, <1>3, <1>5, <2>1, AcquireIsHidden, RecheckIsReuseOrHidden
    DEF Serve, AbstractStep
<1>6. CASE AdminPurge \/ Clock \/ Crash
  BY <1>6, AdminPurgeIsForget, ClockIsForget, CrashIsLose DEF AbstractStep
<1>7. CASE UNCHANGED vars
  BY <1>7, StutterIsHidden DEF AbstractStep
<1> QED BY <1>4, <1>5, <1>6, <1>7 DEF Next, Quiet

\* The handler with its tables, its tiers and its locks does what AnswerCache
\* promises: what is given was obtained for the request or is known and fits,
\* what was forgotten is never given again, and a bypass leaves no trace.
THEOREM AnswerCacheIsImplemented == Spec => AnswerCacheImplemented
<1>1. CInv /\ SInv /\ [Next]_vars => [AC!Next]_(AC!vars)
  BY NextIsAbstractStep
<1> QED
  BY <1>1, InitIsAbstract, StagesInvariance, PTL
  DEF Spec, AnswerCacheImplemented, AC!Spec

-----------------------------------------------------------------------------
(* The request log against what requests were answered.                     *)

LogRows(o, u) == {n \in DOMAIN log : log[n].outcome = o /\ log[n].user = u}
Repliers(o, u) == {r \in Requests : reply[r] = o /\ User(r) = u}

LEMMA LogFinite == TypeOK => IsFiniteSet(DOMAIN log)
<1> SUFFICES ASSUME TypeOK PROVE IsFiniteSet(DOMAIN log)
  OBVIOUS
<1>1. DOMAIN log = 1 .. Len(log) /\ Len(log) \in Int /\ 1 \in Int
  BY DEF TypeOK
<1> QED BY <1>1, FS_Interval

LEMMA RepliersFinite ==
  ASSUME SInv, NEW o \in Outcomes, NEW u
  PROVE  IsFiniteSet(Repliers(o, u))
<1>1. o # "none"
  BY DEF Outcomes
<1>2. Repliers(o, u) \subseteq Begun
  BY <1>1 DEF Repliers, Begun, SInv, ShapeOf
<1> QED BY <1>2, FS_Subset DEF SInv

\* Nobody is given an outcome that is logged, and no row is added.
LEMMA RepliesStay ==
  ASSUME LogMatchesReplies, ask' = ask, DOMAIN log' = DOMAIN log,
         \A n \in DOMAIN log : /\ log'[n].outcome = log[n].outcome
                               /\ log'[n].user = log[n].user,
         \A r \in Requests :
           reply'[r] # reply[r] => /\ reply[r] \notin Outcomes
                                   /\ reply'[r] \notin Outcomes
  PROVE  LogMatchesReplies'
<1> SUFFICES ASSUME NEW o \in Outcomes, NEW u \in Users
             PROVE  Cardinality(LogRows(o, u)') = Cardinality(Repliers(o, u)')
  BY DEF LogMatchesReplies, LogRows, Repliers
<1>1. LogRows(o, u)' = LogRows(o, u)
  BY DEF LogRows
<1>2. Repliers(o, u)' = Repliers(o, u)
  BY DEF Repliers, User
<1>3. Cardinality(LogRows(o, u)) = Cardinality(Repliers(o, u))
  BY DEF LogMatchesReplies, LogRows, Repliers
<1> QED BY <1>1, <1>2, <1>3

\* What an appended row changes.
LEMMA AppendedRow ==
  ASSUME CInv, NEW o, NEW u, NEW i, LogRequest(o, u, i)
  PROVE  /\ Len(log) + 1 \notin DOMAIN log
         /\ DOMAIN log' = DOMAIN log \cup {Len(log) + 1}
         /\ \A n \in DOMAIN log : log'[n] = log[n]
         /\ log'[Len(log) + 1].outcome = o
         /\ log'[Len(log) + 1].user = u
         /\ log'[Len(log) + 1].matched = i
<1> DEFINE row == [outcome |-> o, user |-> u, matched |-> i]
<1>1. log' = Append(log, row)
  BY DEF LogRequest
<1> HIDE DEF row
<1>2. log \in Seq(LogRow)
  BY DEF CInv, TInv, TypeOK
<1>3. /\ Len(log) + 1 \notin DOMAIN log
      /\ DOMAIN log' = DOMAIN log \cup {Len(log) + 1}
      /\ \A n \in DOMAIN log : log'[n] = log[n]
      /\ log'[Len(log) + 1] = row
  BY <1>1, <1>2
<1> QED BY <1>3 DEF row

\* One more request has the outcome o, and one more row.
LEMMA RepliesGrow ==
  ASSUME CInv, SInv, LogMatchesReplies, NEW r \in Requests,
         NEW o \in Outcomes, NEW i, LogRequest(o, User(r), i),
         reply' = [reply EXCEPT ![r] = o], pc[r] # "done", ask' = ask
  PROVE  LogMatchesReplies'
<1>0. PICK v \in Users : v = User(r) /\ LogRequest(o, v, i)
  BY AskFields DEF CInv, HInv
<1>1. /\ Len(log) + 1 \notin DOMAIN log
      /\ DOMAIN log' = DOMAIN log \cup {Len(log) + 1}
      /\ \A n \in DOMAIN log : log'[n] = log[n]
  BY <1>0, AppendedRow
<1>2. /\ log'[Len(log) + 1].outcome = o
      /\ log'[Len(log) + 1].user = User(r)
  BY <1>0, AppendedRow
<1>3. reply[r] = "none"
  BY DEF SInv, ShapeOf
<1>4. \A s \in Requests : reply'[s] = IF s = r THEN o ELSE reply[s]
  BY DEF CInv, HInv, TypeOKHandler
<1> SUFFICES ASSUME NEW q \in Outcomes, NEW u \in Users
             PROVE  Cardinality(LogRows(q, u)') = Cardinality(Repliers(q, u)')
  BY DEF LogMatchesReplies, LogRows, Repliers
<1>5. Cardinality(LogRows(q, u)) = Cardinality(Repliers(q, u))
  BY DEF LogMatchesReplies, LogRows, Repliers
<1>6. CASE q = o /\ u = User(r)
  <2>1. /\ LogRows(q, u)' = LogRows(q, u) \cup {Len(log) + 1}
        /\ Len(log) + 1 \notin LogRows(q, u)
    BY <1>1, <1>2, <1>6 DEF LogRows
  <2>2. /\ Repliers(q, u)' = Repliers(q, u) \cup {r}
        /\ r \notin Repliers(q, u)
    BY <1>3, <1>4, <1>6 DEF Repliers, User, Outcomes
  <2>3. IsFiniteSet(LogRows(q, u))
    BY LogFinite, FS_Subset DEF CInv, TInv, LogRows
  <2>4. IsFiniteSet(Repliers(q, u))
    BY RepliersFinite
  <2>5. Cardinality(LogRows(q, u)') = Cardinality(LogRows(q, u)) + 1
    BY <2>1, <2>3, FS_AddElement
  <2>6. Cardinality(Repliers(q, u)') = Cardinality(Repliers(q, u)) + 1
    BY <2>2, <2>4, FS_AddElement
  <2> QED BY <1>5, <2>5, <2>6
<1>7. CASE ~(q = o /\ u = User(r))
  <2>1. LogRows(q, u)' = LogRows(q, u)
    BY <1>1, <1>2, <1>7 DEF LogRows
  <2>2. Repliers(q, u)' = Repliers(q, u)
    BY <1>3, <1>4, <1>7 DEF Repliers, User, Outcomes
  <2> QED BY <1>5, <2>1, <2>2
<1> QED BY <1>6, <1>7

\* A request that ends has its row, or an outcome that has none.
LEMMA FinishKeepsReplies ==
  ASSUME CInv, SInv, LogMatchesReplies, NEW r \in Requests, NEW outcome,
         Finish(r, outcome), pc[r] # "done", ask' = ask,
         \/ outcome \in Outcomes /\ \E i : LogRequest(outcome, User(r), i)
         \/ outcome \in {"500", "4xx"} /\ UNCHANGED tables
  PROVE  LogMatchesReplies'
<1>1. reply' = [reply EXCEPT ![r] = outcome]
  BY DEF Finish
<1>2. CASE outcome \in Outcomes /\ \E i : LogRequest(outcome, User(r), i)
  BY <1>1, <1>2, RepliesGrow
<1>3. CASE outcome \in {"500", "4xx"} /\ UNCHANGED tables
  <2>1. reply[r] = "none"
    BY DEF SInv, ShapeOf
  <2>2. \A s \in Requests : reply'[s] = IF s = r THEN outcome ELSE reply[s]
    BY <1>1 DEF CInv, HInv, TypeOKHandler
  <2>3. \A s \in Requests :
          reply'[s] # reply[s] => /\ reply[s] \notin Outcomes
                                  /\ reply'[s] \notin Outcomes
    BY <1>3, <2>1, <2>2 DEF Outcomes
  <2> QED BY <1>3, <2>3, RepliesStay DEF tables
<1> QED BY <1>2, <1>3

\* A step that answers nobody keeps the rows, but for their references.
LEMMA RowsKeepReplies ==
  ASSUME CInv, LogMatchesReplies, ask' = ask, reply' = reply,
         log' = log \/ \E ids : log' = Detached(ids)
  PROVE  LogMatchesReplies'
<1>1. /\ DOMAIN log' = DOMAIN log
      /\ \A n \in DOMAIN log : /\ log'[n].outcome = log[n].outcome
                               /\ log'[n].user = log[n].user
  BY DetachedRows DEF CInv, TInv
<1> QED BY <1>1, RepliesStay

LEMMA InitEstablishesReplies == Init => LogMatchesReplies
<1> SUFFICES ASSUME Init, NEW o \in Outcomes, NEW u \in Users
             PROVE  Cardinality(LogRows(o, u)) = Cardinality(Repliers(o, u))
  BY DEF LogMatchesReplies, LogRows, Repliers
<1>1. LogRows(o, u) = {}
  BY DEF Init, InitTables, LogRows
<1>2. Repliers(o, u) = {}
  BY DEF Init, Repliers, Outcomes
<1> QED BY <1>1, <1>2

LEMMA NextPreservesReplies ==
  CInv /\ SInv /\ LogMatchesReplies /\ [Next]_vars => LogMatchesReplies'
<1> SUFFICES ASSUME CInv, SInv, LogMatchesReplies, [Next]_vars
             PROVE  LogMatchesReplies'
  OBVIOUS
<1>1. ASSUME NEW r \in Requests, Arrival(r) PROVE LogMatchesReplies'
  <2>1. CASE Reject(r)
    <3>1. Finish(r, "4xx") /\ pc[r] = "new" /\ ask' = ask /\ UNCHANGED tables
      BY <2>1 DEF Reject
    <3> QED BY <3>1, FinishKeepsReplies
  <2>2. CASE ArriveBypass(r)
    BY <2>2, RowsKeepReplies DEF ArriveBypass, tables
  <2>3. CASE Arrive(r)
    BY <2>3, RowsKeepReplies DEF Arrive, Lookup
  <2> QED BY <1>1, <2>1, <2>2, <2>3 DEF Arrival
<1>2. ASSUME NEW r \in Requests, Serve(r) PROVE LogMatchesReplies'
  <2>1. CASE Acquire(r)
    BY <2>1, RowsKeepReplies DEF Acquire, tables
  <2>2. CASE Recheck(r)
    BY <2>2, RowsKeepReplies DEF Recheck, Lookup
  <2>3. CASE LogMiss(r)
    <3>1. /\ Finish(r, Outcome("MISS", body[r])) /\ pc[r] = "stored" /\ ask' = ask
          /\ IF Loggable(body[r]) THEN LogRequest("MISS", User(r), got[r])
                                  ELSE UNCHANGED tables
      BY <2>3 DEF LogMiss
    <3>2. \/ /\ Outcome("MISS", body[r]) \in Outcomes
             /\ LogRequest(Outcome("MISS", body[r]), User(r), got[r])
          \/ Outcome("MISS", body[r]) \in {"500", "4xx"} /\ UNCHANGED tables
      BY <3>1 DEF Outcome, Outcomes
    <3> QED BY <3>1, <3>2, FinishKeepsReplies
  <2>4. CASE LogHit(r)
    <3>1. /\ Finish(r, Outcome("HIT", body[r])) /\ pc[r] = "serving" /\ ask' = ask
          /\ IF Loggable(body[r]) THEN LogRequest("HIT", User(r), got[r])
                                  ELSE UNCHANGED tables
      BY <2>4 DEF LogHit
    <3>2. \/ /\ Outcome("HIT", body[r]) \in Outcomes
             /\ LogRequest(Outcome("HIT", body[r]), User(r), got[r])
          \/ Outcome("HIT", body[r]) \in {"500", "4xx"} /\ UNCHANGED tables
      BY <3>1 DEF Outcome, Outcomes
    <3> QED BY <3>1, <3>2, FinishKeepsReplies
  <2>5. ASSUME NEW form \in Forms, AnswerMiss(r, form) PROVE LogMatchesReplies'
    BY <2>5, RowsKeepReplies DEF AnswerMiss, Store
  <2>6. ASSUME NEW form \in Forms, AnswerBypass(r, form) PROVE LogMatchesReplies'
    <3> DEFINE response == [origin |-> r, form |-> form]
               outcome == Outcome("BYPASS", response)
    <3>1. /\ Finish(r, outcome) /\ pc[r] = "bypassing" /\ ask' = ask
          /\ IF Loggable(response) THEN LogRequest("BYPASS", User(r), NoEntry)
                                   ELSE UNCHANGED tables
      BY <2>6 DEF AnswerBypass
    <3> HIDE DEF response
    <3>2. \/ outcome \in Outcomes /\ LogRequest(outcome, User(r), NoEntry)
          \/ outcome \in {"500", "4xx"} /\ UNCHANGED tables
      BY <3>1 DEF Outcome, Outcomes
    <3> HIDE DEF outcome
    <3> QED BY <3>1, <3>2, FinishKeepsReplies
  <2>7. ASSUME NEW failure, FailMiss(r, failure) \/ FailBypass(r, failure)
        PROVE  LogMatchesReplies'
    <3>1. /\ pc[r] \in {"forwarding", "bypassing"} /\ ask' = ask
          /\ \/ Finish(r, "ERROR") /\ LogRequest("ERROR", User(r), NoEntry)
             \/ Finish(r, "500") /\ UNCHANGED tables
      BY <2>7 DEF FailMiss, FailBypass
    <3>2. "ERROR" \in Outcomes
      BY DEF Outcomes
    <3> QED BY <3>1, <3>2, FinishKeepsReplies
  <2> QED BY <1>2, <2>1, <2>2, <2>3, <2>4, <2>5, <2>6, <2>7 DEF Serve
<1>3. CASE AdminPurge
  BY <1>3, RowsKeepReplies DEF AdminPurge, Purge, PurgeAll, Delete, handler
<1>4. CASE Clock
  BY <1>4, RowsKeepReplies DEF Clock, Age, handler
<1>5. CASE Crash
  BY <1>5, RowsKeepReplies DEF Crash, tables
<1>6. CASE UNCHANGED vars
  BY <1>6, RowsKeepReplies DEF vars, tables, handler
<1> QED BY <1>1, <1>2, <1>3, <1>4, <1>5, <1>6 DEF Next, Quiet

\* The request log holds one row for every request that was answered, of its
\* user and with its outcome, and no other row.
THEOREM LogIsComplete == Spec => []LogMatchesReplies
<1>1. CInv /\ SInv /\ LogMatchesReplies /\ [Next]_vars => LogMatchesReplies'
  BY NextPreservesReplies
<1> QED BY <1>1, InitEstablishesReplies, StagesInvariance, PTL DEF Spec

-----------------------------------------------------------------------------
(* The hits counted on the entries against the request log.                 *)

LEMMA HitRowsFinite ==
  ASSUME CInv, NEW i
  PROVE  IsFiniteSet(HitRows(i))
BY LogFinite, FS_Subset DEF CInv, TInv, HitRows

LEMMA UnloggedFinite ==
  ASSUME SInv, NEW i, i # NoEntry
  PROVE  IsFiniteSet(UnloggedHits(i))
<1>1. UnloggedHits(i) \subseteq Begun
  BY DEF UnloggedHits, Begun, SInv, ShapeOf, Early
<1> QED BY <1>1, FS_Subset DEF SInv

LEMMA IdsAreNoNull ==
  ASSUME CInv
  PROVE  NoEntry \notin Ids /\ lastId + 1 # NoEntry
BY DEF CInv, TInv, TypeOK, NoEntry

\* The entries that stay have had no hit, no row and nobody about to write one.
LEMMA CountsStay ==
  ASSUME HitCountMatchesLog,
         \A i \in Ids' : /\ i \in Ids
                         /\ entries'[i].hits = entries[i].hits
                         /\ HitRows(i)' = HitRows(i)
                         /\ UnloggedHits(i)' = UnloggedHits(i)
  PROVE  HitCountMatchesLog'
BY DEF HitCountMatchesLog

LEMMA DetachedHitRows ==
  ASSUME CInv, NEW ids, log' = Detached(ids), NEW i \in Ids, i \notin ids
  PROVE  HitRows(i)' = HitRows(i)
<1>1. /\ DOMAIN log' = DOMAIN log
      /\ \A n \in DOMAIN log :
           /\ log'[n].outcome = log[n].outcome
           /\ log'[n].matched
                = IF log[n].matched \in ids THEN NoEntry ELSE log[n].matched
  BY DetachedRows DEF CInv, TInv
<1>2. i # NoEntry
  BY IdsAreNoNull
<1> QED BY <1>1, <1>2 DEF HitRows

\* Only r moves, and it is about to write no row for i, before or after.
LEMMA UnloggedStay ==
  ASSUME NEW r \in Requests, NEW i,
         \A s \in Requests \ {r} :
           pc'[s] = pc[s] /\ got'[s] = got[s] /\ body'[s] = body[s],
         got[r] # i \/ body[r].origin = r
                    \/ (pc[r] \notin {"serving", "lost"} /\ Loggable(body[r])),
         got'[r] # i \/ body'[r].origin = r
                     \/ (pc'[r] \notin {"serving", "lost"} /\ Loggable(body[r])')
  PROVE  UnloggedHits(i)' = UnloggedHits(i)
BY DEF UnloggedHits, Loggable

\* A request that has nothing moves on and gets nothing.
LEMMA EmptyHandedStay ==
  ASSUME CInv, SInv, NEW r \in Requests, pc[r] \in Early,
         \A s \in Requests \ {r} :
           pc'[s] = pc[s] /\ got'[s] = got[s] /\ body'[s] = body[s],
         got'[r] = got[r], NEW i \in Ids
  PROVE  UnloggedHits(i)' = UnloggedHits(i)
<1>1. got[r] # i /\ got'[r] # i
  BY IdsAreNoNull DEF SInv, ShapeOf
<1> QED BY <1>1, UnloggedStay

\* A row that is no hit changes no count.
LEMMA OtherRows ==
  ASSUME CInv, NEW o \in Outcomes \ {"HIT"}, NEW u, NEW j, LogRequest(o, u, j),
         NEW i
  PROVE  HitRows(i)' = HitRows(i)
<1>1. /\ DOMAIN log' = DOMAIN log \cup {Len(log) + 1}
      /\ \A n \in DOMAIN log : log'[n] = log[n]
      /\ log'[Len(log) + 1].outcome = o
      /\ Len(log) + 1 \notin DOMAIN log
  BY AppendedRow
<1> QED BY <1>1 DEF HitRows

\* One request moves; entries and hit rows stay as they are.
LEMMA MoveKeepsCounts ==
  ASSUME CInv, SInv, HitCountMatchesLog, NEW r \in Requests, pc[r] \in Early,
         \A s \in Requests \ {r} :
           pc'[s] = pc[s] /\ got'[s] = got[s] /\ body'[s] = body[s],
         got'[r] = got[r], entries' = entries,
         \/ log' = log
         \/ \E o \in Outcomes \ {"HIT"}, u \in Users : LogRequest(o, u, NoEntry)
  PROVE  HitCountMatchesLog'
<1>1. Ids' = Ids
  BY DEF Ids
<1>2. \A i \in Ids : HitRows(i)' = HitRows(i)
  <2>1. CASE log' = log
    BY <2>1 DEF HitRows
  <2>2. CASE \E o \in Outcomes \ {"HIT"}, u \in Users : LogRequest(o, u, NoEntry)
    <3>1. PICK o \in Outcomes \ {"HIT"}, u \in Users : LogRequest(o, u, NoEntry)
      BY <2>2
    <3> QED BY <3>1, OtherRows
  <2> QED BY <2>1, <2>2
<1>3. \A i \in Ids : UnloggedHits(i)' = UnloggedHits(i)
  BY EmptyHandedStay
<1> QED BY <1>1, <1>2, <1>3, CountsStay

\* A lookup counts its hit, and the request that takes it has its row to write.
LEMMA HitIsCounted ==
  ASSUME CInv, SInv, HitCountMatchesLog, NEW r \in Requests, NEW h \in TheHit(r),
         Lookup(Prompt(r), User(r), Model(r)), Take(h, r), GoOn(r, "serving"),
         pc[r] \in {"new", "locked"}
  PROVE  HitCountMatchesLog'
<1> DEFINE p == Prompt(r)
           u == User(r)
           m == Model(r)
<1>1. p \in Prompts /\ u \in Users /\ m \in Models
  BY AskFields DEF CInv, HInv
<1>2. Lookup(p, u, m) /\ h \in Hit(p, u, m)
  BY DEF TheHit
<1>3. \A i, j \in Hit(p, u, m) : i = j
  BY <1>1, InvariantGivesLookupSound DEF CInv, LookupSound
<1> HIDE DEF p, u, m
<1>4. /\ Ids' \subseteq Ids
      /\ \A i \in Ids' : entries'[i].hits
                           = entries[i].hits + (IF i \in Hit(p, u, m) THEN 1 ELSE 0)
      /\ log' = Detached(Ids \ Ids')
  BY <1>1, <1>2, LookupKeepsRows DEF CInv
<1>5. /\ h \in Ids /\ h \in Ids'
      /\ entries[h].response \in Responses
      /\ entries[h].response.origin # r
  <2>1. h \in Ids /\ h \in Ids' /\ entries[h].response \in Responses
    BY HitFits DEF CInv, HInv
  <2> QED BY <2>1 DEF SInv, OriginsAreLate, Late
<1>6. /\ pc'[r] = "serving" /\ got'[r] = h /\ body'[r] = entries[h].response
      /\ \A s \in Requests \ {r} :
           pc'[s] = pc[s] /\ got'[s] = got[s] /\ body'[s] = body[s]
  BY DEF Take, GoOn, CInv, HInv, TypeOKHandler
<1>7. got[r] = NoEntry /\ NoEntry \notin Ids
  BY IdsAreNoNull DEF SInv, ShapeOf, Early
<1> SUFFICES ASSUME NEW i \in Ids'
             PROVE  entries'[i].hits = Cardinality(HitRows(i)')
                                         + Cardinality(UnloggedHits(i)')
  BY DEF HitCountMatchesLog
<1>8. /\ i \in Ids
      /\ entries[i].hits = Cardinality(HitRows(i)) + Cardinality(UnloggedHits(i))
  BY <1>4 DEF HitCountMatchesLog
<1>9. HitRows(i)' = HitRows(i)
  BY <1>4, <1>8, DetachedHitRows
<1>10. CASE i = h
  <2>1. /\ UnloggedHits(i)' = UnloggedHits(i) \cup {r}
        /\ r \notin UnloggedHits(i)
    BY <1>5, <1>6, <1>7, <1>10 DEF UnloggedHits, Loggable
  <2>2. IsFiniteSet(UnloggedHits(i))
    BY <1>7, <1>8, UnloggedFinite
  <2>3. Cardinality(UnloggedHits(i)') = Cardinality(UnloggedHits(i)) + 1
    BY <2>1, <2>2, FS_AddElement
  <2>4. /\ Cardinality(UnloggedHits(i)) \in Nat
        /\ Cardinality(HitRows(i)) \in Nat
    BY <2>2, HitRowsFinite, FS_CardinalityType
  <2>5. entries'[i].hits = entries[i].hits + 1
    BY <1>2, <1>4, <1>10
  <2> QED BY <1>8, <1>9, <2>3, <2>4, <2>5
<1>11. CASE i # h
  <2>1. UnloggedHits(i)' = UnloggedHits(i)
    BY <1>6, <1>7, <1>8, <1>11, UnloggedStay
  <2>2. entries'[i].hits = entries[i].hits
    <3>1. entries[i].hits \in Nat
      BY <1>8 DEF CInv, TInv, TypeOK, Entry
    <3>2. entries'[i].hits = entries[i].hits + 0
      BY <1>2, <1>3, <1>4, <1>11
    <3> QED BY <3>1, <3>2
  <2> QED BY <1>8, <1>9, <2>1, <2>2
<1> QED BY <1>10, <1>11

\* A lookup that misses counts nothing.
LEMMA MissKeepsCounts ==
  ASSUME CInv, SInv, HitCountMatchesLog, NEW r \in Requests,
         Lookup(Prompt(r), User(r), Model(r)), TheHit(r) = {},
         pc[r] \in Early, got' = got, body' = body,
         \A s \in Requests \ {r} : pc'[s] = pc[s]
  PROVE  HitCountMatchesLog'
<1> DEFINE p == Prompt(r)
           u == User(r)
           m == Model(r)
<1>1. p \in Prompts /\ u \in Users /\ m \in Models
  BY AskFields DEF CInv, HInv
<1>2. Lookup(p, u, m)
  OBVIOUS
<1>2a. Hit(p, u, m) = {}
  BY DEF TheHit
<1> HIDE DEF p, u, m
<1>3. /\ Ids' \subseteq Ids
      /\ \A i \in Ids' : entries'[i].hits = entries[i].hits + 0
      /\ log' = Detached(Ids \ Ids')
  <2>1. /\ Ids' \subseteq Ids
        /\ \A i \in Ids' : entries'[i].hits
                             = entries[i].hits + (IF i \in Hit(p, u, m) THEN 1 ELSE 0)
        /\ log' = Detached(Ids \ Ids')
    BY <1>1, <1>2, LookupKeepsRows DEF CInv
  <2> QED BY <1>2a, <2>1
<1>4. ASSUME NEW i \in Ids'
      PROVE  /\ i \in Ids
             /\ entries'[i].hits = entries[i].hits
             /\ HitRows(i)' = HitRows(i)
             /\ UnloggedHits(i)' = UnloggedHits(i)
  <2>1. i \in Ids
    BY <1>3
  <2>2. entries[i].hits \in Nat
    BY <2>1 DEF CInv, TInv, TypeOK, Entry
  <2>3. entries'[i].hits = entries[i].hits + 0
    BY <1>3
  <2>4. HitRows(i)' = HitRows(i)
    BY <1>3, <2>1, DetachedHitRows
  <2>5. UnloggedHits(i)' = UnloggedHits(i)
    BY <2>1, EmptyHandedStay
  <2> QED BY <2>1, <2>2, <2>3, <2>4, <2>5
<1> QED BY <1>4, CountsStay

\* A new entry has no hits, no rows, and nobody who was served from it.
LEMMA AnswerMissKeepsCounts ==
  ASSUME CInv, SInv, HitCountMatchesLog, NEW r \in Requests, NEW form \in Forms,
         AnswerMiss(r, form)
  PROVE  HitCountMatchesLog'
<1> DEFINE old == SameKey(Prompt(r), User(r), Model(r))
<1>0. PICK new \in Nat : new = lastId + 1
  BY DEF CInv, TInv, TypeOK
<1>1. /\ pc[r] = "forwarding"
      /\ got' = [got EXCEPT ![r] = new]
      /\ body' = [body EXCEPT ![r] = [origin |-> r, form |-> form]]
      /\ pc' = [pc EXCEPT ![r] = "stored"]
  BY <1>0 DEF AnswerMiss, GoOn
<1>2. /\ Ids' = (Ids \ old) \cup {new}
      /\ new \notin Ids
      /\ \A i \in Ids' \ {new} : entries'[i] = entries[i]
      /\ log' = Detached(old)
  BY <1>0, AnswerMissEntries
<1>3. entries'[new].hits = 0
  <2>1. entries'[new] =
          [prompt |-> Prompt(r), user |-> User(r), model |-> Model(r),
           response |-> [origin |-> r, form |-> form], left |-> Ttl, hits |-> 0]
    BY <1>0, AnswerMissEntries
  <2> QED BY <2>1
<1>4. new # NoEntry /\ NoEntry \notin Ids /\ ~(new <= lastId)
  BY <1>0, IdsAreNoNull DEF CInv, TInv, TypeOK
<1> HIDE DEF old
<1>5. /\ got'[r] = new /\ body'[r] = [origin |-> r, form |-> form]
      /\ \A s \in Requests \ {r} :
           pc'[s] = pc[s] /\ got'[s] = got[s] /\ body'[s] = body[s]
  BY <1>1 DEF CInv, HInv, TypeOKHandler
<1>6. body'[r].origin = r
  BY <1>5
<1>7. got[r] = NoEntry /\ \A s \in Requests : got[s] # new
  BY <1>1, <1>4 DEF SInv, ShapeOf, Early
<1>8. UnloggedHits(new)' = {}
  BY <1>5, <1>6, <1>7 DEF UnloggedHits
<1>9. HitRows(new)' = {}
  <2>1. /\ DOMAIN log' = DOMAIN log
        /\ \A n \in DOMAIN log :
             log'[n].matched = IF log[n].matched \in old THEN NoEntry
                                                        ELSE log[n].matched
    BY <1>2, DetachedRows DEF CInv, TInv
  <2>2. \A n \in DOMAIN log : log[n].matched # new
    BY <1>2, <1>4 DEF CInv, TInv, ReferencesLive
  <2> QED BY <1>4, <2>1, <2>2 DEF HitRows
<1> SUFFICES ASSUME NEW i \in Ids'
             PROVE  entries'[i].hits = Cardinality(HitRows(i)')
                                         + Cardinality(UnloggedHits(i)')
  BY DEF HitCountMatchesLog
<1>10. CASE i = new
  <2>1. Cardinality({}) = 0
    BY FS_EmptySet
  <2>2. HitRows(i)' = {} /\ UnloggedHits(i)' = {}
    BY <1>8, <1>9, <1>10
  <2>3. entries'[i].hits = 0
    BY <1>3, <1>10
  <2> QED BY <2>1, <2>2, <2>3
<1>11. CASE i # new
  <2>1. i \in Ids /\ i \notin old /\ entries'[i] = entries[i]
    BY <1>2, <1>11
  <2>2. HitRows(i)' = HitRows(i)
    BY <1>2, <2>1, DetachedHitRows
  <2>3. UnloggedHits(i)' = UnloggedHits(i)
    BY <1>4, <1>5, <1>7, <1>11, <2>1, UnloggedStay
  <2>4. entries[i].hits = Cardinality(HitRows(i)) + Cardinality(UnloggedHits(i))
    BY <2>1 DEF HitCountMatchesLog
  <2> QED BY <2>1, <2>2, <2>3, <2>4
<1> QED BY <1>10, <1>11

\* The row of a hit takes the place of the hit that had none, unless the
\* response is one that stops the handler: then there is no row.
LEMMA LogHitKeepsCounts ==
  ASSUME CInv, SInv, HitCountMatchesLog, NEW r \in Requests, LogHit(r)
  PROVE  HitCountMatchesLog'
<1>1. /\ pc[r] = "serving"
      /\ pc' = [pc EXCEPT ![r] = "done"]
      /\ got' = got /\ body' = body
      /\ IF Loggable(body[r]) THEN LogRequest("HIT", User(r), got[r])
                              ELSE UNCHANGED tables
  BY DEF LogHit, Finish, Await
<1>2. body[r].origin # r
  BY <1>1 DEF SInv, ShapeOf
<1>3. /\ pc'[r] = "done"
      /\ \A s \in Requests \ {r} : pc'[s] = pc[s]
  BY <1>1 DEF CInv, HInv, TypeOKHandler
<1>4. entries' = entries /\ Ids' = Ids
  BY <1>1 DEF LogRequest, tables, Ids
<1>5. CASE ~Loggable(body[r])
  <2>1. log' = log
    BY <1>1, <1>5 DEF tables
  <2>2. \A i : HitRows(i)' = HitRows(i)
    BY <2>1 DEF HitRows
  <2>3. \A i : UnloggedHits(i)' = UnloggedHits(i)
    BY <1>1, <1>3, <1>5 DEF UnloggedHits, Loggable
  <2> QED BY <1>4, <2>2, <2>3, CountsStay
<1>6. CASE Loggable(body[r])
  <2>1. PICK h \in Nat, u \in Users :
          h = got[r] /\ u = User(r) /\ LogRequest("HIT", u, h)
    BY <1>1, <1>6, AskFields DEF CInv, HInv, TypeOKHandler
  <2>2. /\ Len(log) + 1 \notin DOMAIN log
        /\ DOMAIN log' = DOMAIN log \cup {Len(log) + 1}
        /\ \A n \in DOMAIN log : log'[n] = log[n]
    BY <2>1, AppendedRow
  <2>3. /\ log'[Len(log) + 1].outcome = "HIT"
        /\ log'[Len(log) + 1].matched = h
    BY <2>1, AppendedRow
  <2> SUFFICES ASSUME NEW i \in Ids
               PROVE  entries'[i].hits = Cardinality(HitRows(i)')
                                           + Cardinality(UnloggedHits(i)')
    BY <1>4 DEF HitCountMatchesLog
  <2>4. entries[i].hits = Cardinality(HitRows(i)) + Cardinality(UnloggedHits(i))
    BY DEF HitCountMatchesLog
  <2>5. CASE i = h
    <3>1. /\ HitRows(i)' = HitRows(i) \cup {Len(log) + 1}
          /\ Len(log) + 1 \notin HitRows(i)
      BY <2>2, <2>3, <2>5 DEF HitRows
    <3>2. /\ UnloggedHits(i)' = UnloggedHits(i) \ {r}
          /\ r \in UnloggedHits(i)
      BY <1>1, <1>2, <1>3, <1>6, <2>1, <2>5 DEF UnloggedHits, Loggable
    <3>3. IsFiniteSet(HitRows(i)) /\ IsFiniteSet(UnloggedHits(i))
      BY HitRowsFinite, UnloggedFinite, IdsAreNoNull
    <3>4. Cardinality(HitRows(i)') = Cardinality(HitRows(i)) + 1
      BY <3>1, <3>3, FS_AddElement
    <3>5. Cardinality(UnloggedHits(i)') = Cardinality(UnloggedHits(i)) - 1
      BY <3>2, <3>3, FS_RemoveElement
    <3>6. /\ Cardinality(HitRows(i)) \in Nat
          /\ Cardinality(UnloggedHits(i)) \in Nat
      BY <3>3, FS_CardinalityType
    <3>7. entries'[i].hits = entries[i].hits
      BY <1>4
    <3> QED BY <2>4, <3>4, <3>5, <3>6, <3>7
  <2>6. CASE i # h
    <3>1. HitRows(i)' = HitRows(i)
      BY <2>2, <2>3, <2>6 DEF HitRows
    <3>2. UnloggedHits(i)' = UnloggedHits(i)
      BY <1>1, <1>3, <2>1, <2>6, UnloggedStay
    <3> QED BY <1>4, <2>4, <3>1, <3>2
  <2> QED BY <2>5, <2>6
<1> QED BY <1>5, <1>6

LEMMA LogMissKeepsCounts ==
  ASSUME CInv, SInv, HitCountMatchesLog, NEW r \in Requests, LogMiss(r)
  PROVE  HitCountMatchesLog'
<1>1. /\ pc[r] = "stored"
      /\ pc' = [pc EXCEPT ![r] = "done"]
      /\ got' = got /\ body' = body
      /\ LogRequest("MISS", User(r), got[r]) \/ UNCHANGED tables
  BY DEF LogMiss, Finish, Await
<1>2. body[r].origin = r
  BY <1>1 DEF SInv, ShapeOf
<1>3. \A s \in Requests \ {r} : pc'[s] = pc[s]
  BY <1>1 DEF CInv, HInv, TypeOKHandler
<1>4. entries' = entries /\ Ids' = Ids
  BY <1>1 DEF LogRequest, tables, Ids
<1>5. \A i \in Ids : UnloggedHits(i)' = UnloggedHits(i)
  BY <1>1, <1>2, <1>3, UnloggedStay
<1>6. \A i \in Ids : HitRows(i)' = HitRows(i)
  <2>1. CASE LogRequest("MISS", User(r), got[r])
    <3>1. PICK h \in Nat, u \in Users : LogRequest("MISS", u, h)
      BY <2>1, AskFields DEF CInv, HInv, TypeOKHandler
    <3>2. "MISS" \in Outcomes \ {"HIT"}
      BY DEF Outcomes
    <3> QED BY <3>1, <3>2, OtherRows
  <2>2. CASE UNCHANGED tables
    BY <2>2 DEF tables, HitRows
  <2> QED BY <1>1, <2>1, <2>2
<1> QED BY <1>4, <1>5, <1>6, CountsStay

LEMMA AdminPurgeKeepsCounts ==
  ASSUME CInv, HitCountMatchesLog, AdminPurge
  PROVE  HitCountMatchesLog'
<1>1. /\ UNCHANGED handler
      /\ \E ids : Delete(ids)
  BY DEF AdminPurge, Purge, PurgeAll
<1>2. PICK ids : Delete(ids)
  BY <1>1
<1>3. /\ Ids' = Ids \ ids
      /\ \A i \in Ids' : entries'[i] = entries[i]
      /\ log' = Detached(ids)
  BY <1>2 DEF Delete, Without, Ids
<1>4. \A i \in Ids' : HitRows(i)' = HitRows(i)
  BY <1>3, DetachedHitRows
<1>5. \A i \in Ids' : UnloggedHits(i)' = UnloggedHits(i)
  BY <1>1 DEF handler, UnloggedHits
<1> QED BY <1>3, <1>4, <1>5, CountsStay

LEMMA ClockKeepsCounts ==
  ASSUME CInv, HitCountMatchesLog, Clock
  PROVE  HitCountMatchesLog'
<1>1. UNCHANGED handler /\ log' = log
  BY DEF Clock, Age
<1>2. \A i : HitRows(i)' = HitRows(i) /\ UnloggedHits(i)' = UnloggedHits(i)
  BY <1>1 DEF handler, HitRows, UnloggedHits
<1> QED BY <1>2, ClockEntries, CountsStay

\* Whoever was about to write a row never will.
LEMMA CrashKeepsCounts ==
  ASSUME CInv, SInv, HitCountMatchesLog, Crash
  PROVE  HitCountMatchesLog'
<1>1. /\ pc' = [r \in Requests |->
                  IF pc[r] \in {"new", "done", "lost"} THEN pc[r] ELSE "lost"]
      /\ UNCHANGED <<tables, got, body>>
  BY DEF Crash
<1>2. Ids' = Ids /\ entries' = entries /\ \A i : HitRows(i)' = HitRows(i)
  BY <1>1 DEF tables, Ids, HitRows
<1>3. ASSUME NEW i \in Ids PROVE UnloggedHits(i)' = UnloggedHits(i)
  <2>1. ASSUME NEW r \in Requests
        PROVE  r \in UnloggedHits(i)' <=> r \in UnloggedHits(i)
    <3>1. pc'[r] = IF pc[r] \in {"new", "done", "lost"} THEN pc[r] ELSE "lost"
      BY <1>1
    <3>2. pc[r] \in Stages
      BY DEF CInv, HInv, TypeOKHandler
    <3>3. got[r] = i => pc[r] \notin Early
      BY IdsAreNoNull DEF SInv, ShapeOf
    <3>4. pc[r] = "stored" => body[r].origin = r
      BY DEF SInv, ShapeOf
    <3> QED
      BY <1>1, <3>1, <3>2, <3>3, <3>4 DEF UnloggedHits, Loggable, Stages, Early
  <2> QED BY <2>1 DEF UnloggedHits
<1> QED BY <1>2, <1>3, CountsStay

LEMMA NextPreservesCounts ==
  CInv /\ SInv /\ HitCountMatchesLog /\ [Next]_vars => HitCountMatchesLog'
<1> SUFFICES ASSUME CInv, SInv, HitCountMatchesLog, [Next]_vars
             PROVE  HitCountMatchesLog'
  OBVIOUS
<1>1. ASSUME NEW r \in Requests, Arrival(r) PROVE HitCountMatchesLog'
  <2>1. CASE Reject(r) \/ ArriveBypass(r)
    <3>1. /\ pc[r] \in Early
          /\ pc' = [pc EXCEPT ![r] = "done"] \/ pc' = [pc EXCEPT ![r] = "bypassing"]
          /\ got' = got /\ body' = body /\ UNCHANGED tables
      BY <2>1 DEF Reject, ArriveBypass, Finish, Await, Early
    <3>2. \A s \in Requests \ {r} : pc'[s] = pc[s]
      BY <3>1 DEF CInv, HInv, TypeOKHandler
    <3> QED BY <3>1, <3>2, MoveKeepsCounts DEF tables
  <2>2. CASE Arrive(r)
    <3>1. /\ pc[r] = "new" /\ pc[r] \in Early
          /\ Lookup(Prompt(r), User(r), Model(r))
      BY <2>2 DEF Arrive, Early
    <3>2. ASSUME NEW h \in TheHit(r), Take(h, r), GoOn(r, "serving")
          PROVE  HitCountMatchesLog'
      BY <3>1, <3>2, HitIsCounted
    <3>3. ASSUME TheHit(r) = {}, GoOn(r, "locked") \/ Await(r, "waiting"),
                 UNCHANGED <<got, body>>
          PROVE  HitCountMatchesLog'
      <4>1. \A s \in Requests \ {r} : pc'[s] = pc[s]
        BY <3>3 DEF GoOn, Await, CInv, HInv, TypeOKHandler
      <4> QED BY <3>1, <3>3, <4>1, MissKeepsCounts
    <3> QED BY <2>2, <3>2, <3>3 DEF Arrive
  <2> QED BY <1>1, <2>1, <2>2 DEF Arrival
<1>2. ASSUME NEW r \in Requests, Serve(r) PROVE HitCountMatchesLog'
  <2>1. CASE Acquire(r)
    <3>1. /\ pc[r] \in Early /\ pc' = [pc EXCEPT ![r] = "locked"]
          /\ got' = got /\ body' = body /\ UNCHANGED tables
      BY <2>1 DEF Acquire, GoOn, Early
    <3>2. \A s \in Requests \ {r} : pc'[s] = pc[s]
      BY <3>1 DEF CInv, HInv, TypeOKHandler
    <3> QED BY <3>1, <3>2, MoveKeepsCounts DEF tables
  <2>2. CASE Recheck(r)
    <3>1. /\ pc[r] = "locked" /\ pc[r] \in Early
          /\ Lookup(Prompt(r), User(r), Model(r))
      BY <2>2 DEF Recheck, Early
    <3>2. ASSUME NEW h \in TheHit(r), Take(h, r), GoOn(r, "serving")
          PROVE  HitCountMatchesLog'
      BY <3>1, <3>2, HitIsCounted
    <3>3. ASSUME TheHit(r) = {}, Await(r, "forwarding"), UNCHANGED <<got, body>>
          PROVE  HitCountMatchesLog'
      <4>1. \A s \in Requests \ {r} : pc'[s] = pc[s]
        BY <3>3 DEF Await, CInv, HInv, TypeOKHandler
      <4> QED BY <3>1, <3>3, <4>1, MissKeepsCounts
    <3> QED BY <2>2, <3>2, <3>3 DEF Recheck
  <2>3. ASSUME NEW form \in Forms, AnswerBypass(r, form) PROVE HitCountMatchesLog'
    <3>1. /\ pc[r] \in Early /\ pc' = [pc EXCEPT ![r] = "done"]
          /\ body' = [body EXCEPT ![r] = [origin |-> r, form |-> form]]
          /\ got' = got
          /\ LogRequest("BYPASS", User(r), NoEntry) \/ UNCHANGED tables
      BY <2>3 DEF AnswerBypass, Finish, Await, Early
    <3>2. \A s \in Requests \ {r} : pc'[s] = pc[s] /\ body'[s] = body[s]
      BY <3>1 DEF CInv, HInv, TypeOKHandler
    <3>3. User(r) \in Users /\ "BYPASS" \in Outcomes \ {"HIT"}
      BY AskFields DEF CInv, HInv, Outcomes
    <3>4. entries' = entries
      BY <3>1 DEF LogRequest, tables
    <3>5. \/ log' = log
          \/ \E o \in Outcomes \ {"HIT"}, u \in Users : LogRequest(o, u, NoEntry)
      BY <3>1, <3>3 DEF tables
    <3> QED BY <3>1, <3>2, <3>4, <3>5, MoveKeepsCounts
  <2>4. ASSUME NEW failure, FailMiss(r, failure) \/ FailBypass(r, failure)
        PROVE  HitCountMatchesLog'
    <3>1. /\ pc[r] \in Early /\ pc' = [pc EXCEPT ![r] = "done"]
          /\ body' = body /\ got' = got
          /\ LogRequest("ERROR", User(r), NoEntry) \/ UNCHANGED tables
      BY <2>4 DEF FailMiss, FailBypass, Finish, Await, Early
    <3>2. \A s \in Requests \ {r} : pc'[s] = pc[s]
      BY <3>1 DEF CInv, HInv, TypeOKHandler
    <3>3. User(r) \in Users /\ "ERROR" \in Outcomes \ {"HIT"}
      BY AskFields DEF CInv, HInv, Outcomes
    <3>4. entries' = entries
      BY <3>1 DEF LogRequest, tables
    <3>5. \/ log' = log
          \/ \E o \in Outcomes \ {"HIT"}, u \in Users : LogRequest(o, u, NoEntry)
      BY <3>1, <3>3 DEF tables
    <3> QED BY <3>1, <3>2, <3>4, <3>5, MoveKeepsCounts
  <2> QED BY <1>2, <2>1, <2>2, <2>3, <2>4, AnswerMissKeepsCounts,
             LogMissKeepsCounts, LogHitKeepsCounts DEF Serve
<1>3. CASE AdminPurge \/ Clock \/ Crash
  BY <1>3, AdminPurgeKeepsCounts, ClockKeepsCounts, CrashKeepsCounts
<1>4. CASE UNCHANGED vars
  <2>1. UNCHANGED <<entries, log, pc, got, body>>
    BY <1>4 DEF vars, tables, handler
  <2>2. Ids' = Ids /\ \A i : /\ HitRows(i)' = HitRows(i)
                             /\ UnloggedHits(i)' = UnloggedHits(i)
    BY <2>1 DEF Ids, HitRows, UnloggedHits
  <2> QED BY <2>1, <2>2, CountsStay
<1> QED BY <1>1, <1>2, <1>3, <1>4 DEF Next, Quiet

\* The hit count of an entry is the number of HIT rows that refer to it and of
\* hits that were counted and never logged, through replacements, purges and
\* kills.
THEOREM HitCountsAreLogged == Spec => []HitCountMatchesLog
<1>1. Init => HitCountMatchesLog
  BY DEF Init, InitTables, HitCountMatchesLog, Ids
<1>2. CInv /\ SInv /\ HitCountMatchesLog /\ [Next]_vars => HitCountMatchesLog'
  BY NextPreservesCounts
<1> QED BY <1>1, <1>2, StagesInvariance, PTL DEF Spec

-----------------------------------------------------------------------------
(* Who of several that ask the same goes upstream.  While nothing is lost   *)
(* and nothing fails, whoever is behind a lock either has its creator in    *)
(* front, who will fill the cache, or finds the cache filled.               *)

Filled(r) == ExactHit(Prompt(r), User(r), Model(r)) # {}

\* Nobody else of another user asks for the same prompt and model.
Unshared(r) == \A t \in Requests : Key(t) = Key(r) => User(t) = User(r)

CreatorInside(r) == holder[lockOf[r]] = lockOf[r]

OnTheWay == {"waiting", "locked", "forwarding"}

Settled(r) == Paid(r) /\ ~ask[r].bypass /\ pc[r] # "forwarding"

\* A lock in use was made by the request it is named after, for its own key.
LocksCreated ==
  \A r \in Requests :
    lockOf[r] # None => lockOf[lockOf[r]] = lockOf[r] /\ keyOf[r] = Key(r)

\* Nobody has come to a lock before its creator has looked again: the creator
\* gets there without an await.
FreshLock ==
  \A l \in Requests :
    pc[l] = "locked" /\ lockOf[l] = l => \A s \in Requests \ {l} : lockOf[s] # l

Calm ==
  \A r \in Requests : Unshared(r) =>
    /\ pc[r] \in OnTheWay => CreatorInside(r) \/ Filled(r)
    /\ pc[r] = "forwarding" => ~Filled(r)
    /\ Settled(r) => Filled(r)
    /\ \A s \in Requests : Settled(r) /\ Settled(s) /\ Twins(r, s) => r = s

KInv == LocksCreated /\ FreshLock /\ (disturbed \/ Calm)

-----------------------------------------------------------------------------
LEMMA OnTheWayHasLock ==
  ASSUME CInv, SInv, NEW r \in Requests, pc[r] \in OnTheWay \cup {"stored"}
  PROVE  /\ lockOf[r] \in Requests
         /\ Holding(r) \/ (Queued(r) /\ pc[r] = "waiting")
<1>1. Holding(r) \/ (Queued(r) /\ pc[r] = "waiting")
  BY DEF SInv, LockShapeOf, OnTheWay
<1>2. lockOf[r] \in Requests
  BY <1>1 DEF Holding, Queued, CInv, LInv, TypeOKLocks
<1> QED BY <1>1, <1>2

\* Two requests of one key that are both upstream, each behind its creator, are
\* one: both are in the registry.
LEMMA CreatorsForwardAlone ==
  ASSUME CInv, SInv, LocksCreated, NEW r \in Requests, NEW s \in Requests,
         pc[r] = "forwarding", pc[s] = "forwarding", Key(r) = Key(s),
         CreatorInside(r), CreatorInside(s)
  PROVE  r = s
<1>1. ASSUME NEW q \in Requests, pc[q] = "forwarding", CreatorInside(q)
      PROVE  lockOf[q] = q /\ holder[q] = q /\ keyOf[q] = Key(q)
  <2>1. Holding(q) /\ lockOf[q] \in Requests
    BY <1>1, OnTheWayHasLock DEF SInv, LockShapeOf, OnTheWay
  <2>2. lockOf[q] # None
    BY <2>1 DEF Holding
  <2>3. lockOf[q] = q
    BY <1>1, <2>1 DEF Holding, CreatorInside
  <2> QED BY <1>1, <2>2, <2>3 DEF CreatorInside, LocksCreated
<1>2. Key(r) \in Keys
  BY AskFields DEF CInv, HInv
<1>3. registry[Key(r)] = r /\ registry[Key(r)] = s
  <2>1. holder[r] = r /\ keyOf[r] = Key(r) /\ holder[s] = s /\ keyOf[s] = Key(r)
    BY <1>1
  <2> QED BY <1>2, <2>1 DEF CInv, LInv, RegistryExact
<1> QED BY <1>3

LEMMA CalmGivesCoalesced ==
  ASSUME CInv, SInv, KInv
  PROVE  StampedeCoalesced
<1> SUFFICES ASSUME ~disturbed, NEW r \in Requests, NEW s \in Requests,
                    Twins(r, s), Paid(r), Paid(s), r # s, Unshared(r)
             PROVE  FALSE
  BY DEF StampedeCoalesced, Unshared
<1>1. Calm /\ LocksCreated
  BY DEF KInv
<1>2. /\ Prompt(r) = Prompt(s) /\ User(r) = User(s) /\ Model(r) = Model(s)
      /\ Key(r) = Key(s)
      /\ ~ask[r].bypass /\ ~ask[s].bypass
  BY DEF Twins, Prompt, User, Model, Key
<1>3. Unshared(s)
  BY <1>2 DEF Unshared
<1>4. Filled(r) <=> Filled(s)
  BY <1>2 DEF Filled
<1>5. CASE pc[r] = "forwarding" /\ pc[s] = "forwarding"
  <2>1. CreatorInside(r) /\ CreatorInside(s)
    BY <1>1, <1>3, <1>5 DEF Calm, OnTheWay
  <2> QED BY <1>1, <1>2, <1>5, <2>1, CreatorsForwardAlone
<1>6. CASE pc[r] = "forwarding" /\ pc[s] # "forwarding"
  BY <1>1, <1>2, <1>3, <1>4, <1>6 DEF Calm, Settled
<1>7. CASE pc[r] # "forwarding" /\ pc[s] = "forwarding"
  BY <1>1, <1>2, <1>3, <1>4, <1>7 DEF Calm, Settled
<1>8. CASE pc[r] # "forwarding" /\ pc[s] # "forwarding"
  BY <1>1, <1>2, <1>8 DEF Calm, Settled
<1> QED BY <1>5, <1>6, <1>7, <1>8

\* Rows that go had expired, and the others keep their key and their time.
LEMMA FilledKept ==
  ASSUME ask' = ask, Ids' \subseteq Ids, \A i \in Ids \ Ids' : PastExpiry(i),
         \A i \in Ids' : /\ entries'[i].prompt = entries[i].prompt
                         /\ entries'[i].user = entries[i].user
                         /\ entries'[i].model = entries[i].model
                         /\ PastExpiry(i)' <=> PastExpiry(i)
  PROVE  \A s \in Requests : Filled(s)' <=> Filled(s)
<1> SUFFICES ASSUME NEW s \in Requests PROVE Filled(s)' <=> Filled(s)
  OBVIOUS
<1>1. ExactHit(Prompt(s), User(s), Model(s))'
        = ExactHit(Prompt(s), User(s), Model(s))
  BY DEF ExactHit, SameKey, Scoped, Prompt, User, Model
<1> QED BY <1>1 DEF Filled

LEMMA LookupKeepsFilled ==
  ASSUME CInv, NEW r \in Requests, Lookup(Prompt(r), User(r), Model(r)),
         ask' = ask
  PROVE  \A s \in Requests : Filled(s)' <=> Filled(s)
<1> DEFINE p == Prompt(r)
           u == User(r)
           m == Model(r)
<1>1. p \in Prompts /\ u \in Users /\ m \in Models
  BY AskFields DEF CInv, HInv
<1>2. Lookup(p, u, m)
  OBVIOUS
<1> HIDE DEF p, u, m
<1>3. /\ Ids' \subseteq Ids
      /\ \A i \in Ids \ Ids' : PastExpiry(i)
      /\ \A i \in Ids' : /\ entries'[i].prompt = entries[i].prompt
                         /\ entries'[i].user = entries[i].user
                         /\ entries'[i].model = entries[i].model
                         /\ entries'[i].left = entries[i].left
  BY <1>1, <1>2, LookupKeepsRows DEF CInv
<1>4. \A i \in Ids' : PastExpiry(i)' <=> PastExpiry(i)
  BY <1>3 DEF PastExpiry
<1> QED BY <1>3, <1>4, FilledKept

LEMMA EntriesKeepFilled ==
  ASSUME ask' = ask, entries' = entries
  PROVE  \A s \in Requests : Filled(s)' <=> Filled(s)
BY FilledKept DEF Ids, PastExpiry

\* One request moves, and neither fills the cache nor empties it.
LEMMA CalmMoves ==
  ASSUME CInv, Calm, NEW r \in Requests, ask' = ask,
         \A s \in Requests : Filled(s)' <=> Filled(s),
         \A s \in Requests \ {r} : pc'[s] = pc[s] /\ body'[s] = body[s],
         \A s \in Requests \ {r} :
           pc[s] \in OnTheWay /\ Unshared(s) /\ CreatorInside(s) =>
             CreatorInside(s)' \/ Filled(s),
         Unshared(r) /\ pc'[r] \in OnTheWay => CreatorInside(r)' \/ Filled(r),
         Unshared(r) /\ pc'[r] = "forwarding" => ~Filled(r),
         Settled(r)' => Settled(r)
  PROVE  Calm'
<1>1. \A s \in Requests : Unshared(s)' <=> Unshared(s)
  BY DEF Unshared, Key, User, Prompt, Model
<1>2. \A s \in Requests : Settled(s)' => Settled(s)
  BY DEF Settled, Paid
<1> SUFFICES ASSUME NEW s \in Requests, Unshared(s)
             PROVE  /\ pc'[s] \in OnTheWay => CreatorInside(s)' \/ Filled(s)'
                    /\ pc'[s] = "forwarding" => ~Filled(s)'
                    /\ Settled(s)' => Filled(s)'
                    /\ \A t \in Requests :
                         Settled(s)' /\ Settled(t)' /\ Twins(s, t)' => s = t
  BY <1>1 DEF Calm
<1>3. pc'[s] \in OnTheWay => CreatorInside(s)' \/ Filled(s)'
  <2>1. CASE s = r
    BY <2>1
  <2>2. CASE s # r
    BY <2>2 DEF Calm
  <2> QED BY <2>1, <2>2
<1>4. pc'[s] = "forwarding" => ~Filled(s)'
  <2>1. CASE s = r
    BY <2>1
  <2>2. CASE s # r
    BY <2>2 DEF Calm
  <2> QED BY <2>1, <2>2
<1>5. Settled(s)' => Filled(s)'
  BY <1>2 DEF Calm
<1>6. ASSUME NEW t \in Requests, Settled(s)', Settled(t)', Twins(s, t)'
      PROVE  s = t
  <2>1. Twins(s, t)
    BY <1>6 DEF Twins
  <2> QED BY <1>2, <1>6, <2>1 DEF Calm
<1> QED BY <1>3, <1>4, <1>5, <1>6

LEMMA FreshKept ==
  ASSUME FreshLock, lockOf' = lockOf,
         \A l \in Requests : pc'[l] = "locked" => pc[l] = "locked" \/ lockOf[l] # l
  PROVE  FreshLock'
BY DEF FreshLock

LEMMA CreatedKept ==
  ASSUME LocksCreated, UNCHANGED <<lockOf, keyOf, ask>>
  PROVE  LocksCreated'
BY DEF LocksCreated, Key, Prompt, Model

\* Whoever leaves a lock that it has not made leaves the creators inside.
LEMMA LeaveKeepsCreators ==
  ASSUME CInv, NEW r \in Requests, Leave(r), NEW s \in Requests,
         lockOf[s] \in Requests, lockOf[s] # r, CreatorInside(s)
  PROVE  CreatorInside(s)'
<1>1. /\ lockOf[r] \in Requests /\ holder[lockOf[r]] = r
      /\ holder' = [holder EXCEPT ![lockOf[r]] = None]
      /\ lockOf' = lockOf
  BY DEF Leave, Holding, CInv, LInv, TypeOKLocks
<1>2. lockOf[s] # lockOf[r]
  BY <1>1 DEF CreatorInside
<1> QED BY <1>1, <1>2 DEF CreatorInside, CInv, LInv, TypeOKLocks

\* A newcomer finds its lock's creator inside, if it is not the creator itself.
LEMMA EnterKeepsCreators ==
  ASSUME CInv, SInv, LocksCreated, NEW r \in Requests, Enter(r, Key(r)),
         ask' = ask
  PROVE  /\ LocksCreated'
         /\ CreatorInside(r)'
         /\ \A s \in Requests \ {r} : lockOf'[s] = lockOf[s] /\ lockOf[s] # r
         /\ \A s \in Requests \ {r} :
              lockOf[s] \in Requests /\ CreatorInside(s) => CreatorInside(s)'
<1> USE LocksAssumption
<1>0. PICK k \in Keys : k = Key(r)
  BY AskFields DEF CInv, HInv
<1> DEFINE l == Registered(r, k)
<1>1. /\ lockOf[r] = None
      /\ lockOf' = [lockOf EXCEPT ![r] = l]
      /\ keyOf' = [keyOf EXCEPT ![r] = k]
      /\ \/ Free(l) /\ holder' = [holder EXCEPT ![l] = r]
         \/ ~Free(l) /\ holder' = holder
  BY <1>0 DEF Enter
<1>2. /\ l \in Requests
      /\ \/ l = r /\ Free(l)
         \/ l # r /\ ~Free(l) /\ holder[l] = l /\ lockOf[l] = l
  <2>1. CASE registry[k] = None
    <3>1. l = r
      BY <2>1 DEF Registered
    <3>2. Free(r)
      BY <1>1 DEF Free, CInv, LInv, UsedLocksCreated
    <3> QED BY <3>1, <3>2
  <2>2. CASE registry[k] # None
    <3>1. l = registry[k] /\ l \in Requests
      BY <2>2 DEF Registered, CInv, LInv, TypeOKLocks
    <3>2. holder[l] = l
      BY <3>1 DEF CInv, LInv, RegistryExact
    <3>3. lockOf[l] = l
      BY <3>1, <3>2 DEF CInv, LInv, HoldersSound
    <3> QED BY <1>1, <3>1, <3>2, <3>3 DEF Free
  <2> QED BY <2>1, <2>2
<1> HIDE DEF l
<1>3. /\ lockOf'[r] = l /\ keyOf'[r] = k
      /\ \A s \in Requests \ {r} : lockOf'[s] = lockOf[s] /\ keyOf'[s] = keyOf[s]
  BY <1>1 DEF CInv, LInv, TypeOKLocks
<1>4. \A s \in Requests \ {r} : lockOf[s] # r
  BY <1>1 DEF LocksCreated
<1>5. \A s \in Requests : Key(s)' = Key(s)
  BY DEF Key, Prompt, Model
<1>6. lockOf'[l] = l
  BY <1>2, <1>3
<1>7. LocksCreated'
  <2> SUFFICES ASSUME NEW s \in Requests, lockOf'[s] # None
               PROVE  lockOf'[lockOf'[s]] = lockOf'[s] /\ keyOf'[s] = Key(s)
    BY <1>5 DEF LocksCreated
  <2>1. CASE s = r
    BY <1>0, <1>3, <1>6, <2>1
  <2>2. CASE s # r
    <3>1. /\ lockOf[s] # None /\ lockOf[s] \in Requests \ {r}
          /\ lockOf[lockOf[s]] = lockOf[s] /\ keyOf[s] = Key(s)
      BY <1>3, <1>4, <2>2 DEF LocksCreated, CInv, LInv, TypeOKLocks
    <3> QED BY <1>3, <2>2, <3>1
  <2> QED BY <2>1, <2>2
<1>8. CreatorInside(r)'
  BY <1>1, <1>2, <1>3 DEF CreatorInside, CInv, LInv, TypeOKLocks
<1>9. ASSUME NEW s \in Requests \ {r}, lockOf[s] \in Requests, CreatorInside(s)
      PROVE  CreatorInside(s)'
  BY <1>1, <1>2, <1>3, <1>4, <1>9 DEF CreatorInside, CInv, LInv, TypeOKLocks
<1> QED BY <1>3, <1>4, <1>7, <1>8, <1>9

\* Whoever is let into a lock that others have left finds the cache filled.
LEMMA ResumeKeepsCreators ==
  ASSUME CInv, NEW r \in Requests, Resume(r)
  PROVE  /\ lockOf[r] # r /\ ~CreatorInside(r)
         /\ lockOf' = lockOf /\ keyOf' = keyOf
         /\ \A s \in Requests :
              lockOf[s] \in Requests /\ CreatorInside(s) => CreatorInside(s)'
<1> USE LocksAssumption
<1> DEFINE l == lockOf[r]
<1>1. /\ l \in Requests /\ holder[l] = None
      /\ waiters[l] \in Seq(Requests) /\ waiters[l] # <<>>
      /\ r = waiters[l][1] /\ 1 \in DOMAIN waiters[l]
      /\ holder' = [holder EXCEPT ![l] = r]
      /\ lockOf' = lockOf /\ keyOf' = keyOf
  BY DEF Resume, CInv, LInv, TypeOKLocks
<1>2. l # r
  BY <1>1 DEF CInv, LInv, CreatorsNeverWait
<1>3. ~CreatorInside(r)
  BY <1>1 DEF CreatorInside
<1>4. ASSUME NEW s \in Requests, lockOf[s] \in Requests, CreatorInside(s)
      PROVE  CreatorInside(s)'
  BY <1>1, <1>4 DEF CreatorInside, CInv, LInv, TypeOKLocks
<1> QED BY <1>1, <1>2, <1>3, <1>4

\* The steps that leave the locks alone.
LEMMA LocksAloneKeepKInv ==
  ASSUME CInv, SInv, KInv, NEW r \in Requests, UNCHANGED <<locks, ask, disturbed>>,
         \A s \in Requests : Filled(s)' <=> Filled(s),
         \A s \in Requests \ {r} : pc'[s] = pc[s] /\ body'[s] = body[s],
         pc'[r] \notin OnTheWay \/ (pc[r] = "locked" /\ pc'[r] = "forwarding"),
         pc'[r] = "forwarding" => ~Filled(r),
         Settled(r)' => Settled(r)
  PROVE  KInv'
<1>1. LocksCreated'
  BY CreatedKept DEF KInv, locks
<1>2. FreshLock'
  BY FreshKept DEF KInv, locks, OnTheWay
<1>3. ASSUME Calm PROVE Calm'
  <2>1. \A s \in Requests : CreatorInside(s)' <=> CreatorInside(s)
    BY DEF locks, CreatorInside
  <2>2. Unshared(r) /\ pc'[r] \in OnTheWay => CreatorInside(r)' \/ Filled(r)
    BY <1>3, <2>1 DEF Calm, OnTheWay
  <2> QED BY <1>3, <2>1, <2>2, CalmMoves
<1> QED BY <1>1, <1>2, <1>3 DEF KInv

LEMMA QuietStepsKeepKInv ==
  ASSUME CInv, SInv, KInv, NEW r \in Requests,
         \/ Reject(r) \/ ArriveBypass(r) \/ LogHit(r)
         \/ \E form \in Forms : AnswerBypass(r, form)
         \/ \E failure : FailBypass(r, failure)
  PROVE  KInv'
<1>1. /\ UNCHANGED <<locks, ask, disturbed>>
      /\ entries' = entries
      /\ pc' = [pc EXCEPT ![r] = "done"] \/ pc' = [pc EXCEPT ![r] = "bypassing"]
      /\ \/ body' = body
         \/ \E form \in Forms :
              body' = [body EXCEPT ![r] = [origin |-> r, form |-> form]]
  BY DEF Reject, ArriveBypass, LogHit, AnswerBypass, FailBypass, Finish, Await,
         LogRequest, tables
<1>2. /\ pc'[r] = "done" \/ pc'[r] = "bypassing"
      /\ \A s \in Requests \ {r} : pc'[s] = pc[s] /\ body'[s] = body[s]
  BY <1>1 DEF CInv, HInv, TypeOKHandler
<1>3. Settled(r)' => Settled(r)
  <2>1. CASE Reject(r)
    BY <1>2, <2>1 DEF Reject, SInv, ShapeOf, Early, Settled, Paid
  <2>2. CASE ArriveBypass(r) \/ \E form \in Forms : AnswerBypass(r, form)
    BY <1>1, <2>2 DEF ArriveBypass, AnswerBypass, SInv, ShapeOf, Settled
  <2>3. CASE \E failure : FailBypass(r, failure)
    BY <1>1, <2>3 DEF FailBypass, SInv, ShapeOf, Settled
  <2>4. CASE LogHit(r)
    BY <1>2, <2>4 DEF LogHit, SInv, ShapeOf, Settled, Paid
  <2> QED BY <2>1, <2>2, <2>3, <2>4
<1>4. \A s \in Requests : Filled(s)' <=> Filled(s)
  BY <1>1, EntriesKeepFilled
<1> QED BY <1>1, <1>2, <1>3, <1>4, LocksAloneKeepKInv DEF OnTheWay

LEMMA ArriveKeepsKInv ==
  ASSUME CInv, SInv, KInv, NEW r \in Requests, Arrive(r)
  PROVE  KInv'
<1>1. /\ running = None /\ pc[r] = "new"
      /\ Lookup(Prompt(r), User(r), Model(r))
      /\ UNCHANGED <<ask, disturbed>>
  BY DEF Arrive
<1>2. \A s \in Requests : Filled(s)' <=> Filled(s)
  BY <1>1, LookupKeepsFilled
<1>3. ASSUME NEW i \in TheHit(r), Take(i, r), GoOn(r, "serving"), UNCHANGED locks
      PROVE  KInv'
  <2>1. /\ pc'[r] = "serving"
        /\ \A s \in Requests \ {r} : pc'[s] = pc[s] /\ body'[s] = body[s]
    BY <1>3 DEF Take, GoOn, CInv, HInv, TypeOKHandler
  <2>2. ~Settled(r)'
    BY <2>1 DEF Settled, Paid
  <2> QED BY <1>1, <1>2, <1>3, <2>1, <2>2, LocksAloneKeepKInv DEF OnTheWay
<1>4. ASSUME Enter(r, Key(r)), body' = body,
             GoOn(r, "locked") \/ Await(r, "waiting")
      PROVE  KInv'
  <2>1. /\ LocksCreated'
        /\ CreatorInside(r)'
        /\ \A s \in Requests \ {r} : lockOf'[s] = lockOf[s] /\ lockOf[s] # r
        /\ \A s \in Requests \ {r} :
             lockOf[s] \in Requests /\ CreatorInside(s) => CreatorInside(s)'
    BY <1>1, <1>4, EnterKeepsCreators DEF KInv
  <2>2. /\ pc'[r] \in {"locked", "waiting"}
        /\ \A s \in Requests \ {r} : pc'[s] = pc[s] /\ body'[s] = body[s]
    BY <1>4 DEF GoOn, Await, CInv, HInv, TypeOKHandler
  <2>3. \A s \in Requests : pc[s] # "locked"
    BY <1>1, LocksAssumption DEF CInv, HInv, StretchSound, InStretch
  <2>4. FreshLock'
    BY <2>1, <2>2, <2>3 DEF FreshLock
  <2>5. ~Settled(r)'
    BY <2>2 DEF Settled, Paid
  <2>6. ASSUME Calm PROVE Calm'
    <3>1. \A s \in Requests \ {r} :
            pc[s] \in OnTheWay /\ Unshared(s) /\ CreatorInside(s) =>
              CreatorInside(s)' \/ Filled(s)
      BY <2>1, OnTheWayHasLock
    <3> QED BY <1>1, <1>2, <2>1, <2>2, <2>5, <2>6, <3>1, CalmMoves
  <2> QED BY <1>1, <2>1, <2>4, <2>6 DEF KInv
<1> QED BY <1>3, <1>4 DEF Arrive

LEMMA AcquireKeepsKInv ==
  ASSUME CInv, SInv, KInv, NEW r \in Requests, Acquire(r)
  PROVE  KInv'
<1>1. /\ pc[r] = "waiting" /\ Resume(r)
      /\ pc' = [pc EXCEPT ![r] = "locked"]
      /\ UNCHANGED <<entries, ask, body, disturbed>>
  BY DEF Acquire, GoOn, tables
<1>2. \A s \in Requests : Filled(s)' <=> Filled(s)
  BY <1>1, EntriesKeepFilled
<1>3. /\ lockOf[r] # r /\ ~CreatorInside(r)
      /\ lockOf' = lockOf /\ keyOf' = keyOf
      /\ \A s \in Requests :
           lockOf[s] \in Requests /\ CreatorInside(s) => CreatorInside(s)'
  BY <1>1, ResumeKeepsCreators
<1>4. /\ pc'[r] = "locked"
      /\ \A s \in Requests \ {r} : pc'[s] = pc[s]
  BY <1>1 DEF CInv, HInv, TypeOKHandler
<1>5. LocksCreated'
  BY <1>1, <1>3, CreatedKept DEF KInv
<1>6. FreshLock'
  BY <1>3, <1>4, FreshKept DEF KInv
<1>7. ASSUME Calm PROVE Calm'
  <2>1. \A s \in Requests \ {r} :
          pc[s] \in OnTheWay /\ Unshared(s) /\ CreatorInside(s) =>
            CreatorInside(s)' \/ Filled(s)
    BY <1>3, OnTheWayHasLock
  <2>2. Unshared(r) => Filled(r)
    BY <1>1, <1>3, <1>7 DEF Calm, OnTheWay
  <2>3. ~Settled(r)'
    BY <1>4 DEF Settled, Paid
  <2> QED BY <1>1, <1>2, <1>4, <1>7, <2>1, <2>2, <2>3, CalmMoves
<1> QED BY <1>1, <1>5, <1>6, <1>7 DEF KInv

LEMMA RecheckKeepsKInv ==
  ASSUME CInv, SInv, KInv, NEW r \in Requests, Recheck(r)
  PROVE  KInv'
<1>1. /\ pc[r] = "locked"
      /\ Lookup(Prompt(r), User(r), Model(r))
      /\ UNCHANGED <<ask, disturbed>>
  BY DEF Recheck
<1>2. \A s \in Requests : Filled(s)' <=> Filled(s)
  BY <1>1, LookupKeepsFilled
<1>3. ASSUME NEW i \in TheHit(r), Take(i, r), GoOn(r, "serving"), Leave(r)
      PROVE  KInv'
  <2>1. /\ pc'[r] = "serving"
        /\ \A s \in Requests \ {r} : pc'[s] = pc[s] /\ body'[s] = body[s]
    BY <1>3 DEF Take, GoOn, CInv, HInv, TypeOKHandler
  <2>2. lockOf' = lockOf /\ keyOf' = keyOf
    BY <1>3 DEF Leave
  <2>3. LocksCreated'
    BY <1>1, <2>2, CreatedKept DEF KInv
  <2>4. FreshLock'
    BY <2>1, <2>2, FreshKept DEF KInv
  <2>5. ~Settled(r)'
    BY <2>1 DEF Settled, Paid
  <2>6. ASSUME Calm PROVE Calm'
    <3>1. ASSUME NEW s \in Requests \ {r}, pc[s] \in OnTheWay, CreatorInside(s)
          PROVE  CreatorInside(s)'
      <4>1. lockOf[s] \in Requests
        BY <3>1, OnTheWayHasLock
      <4>2. lockOf[s] # r
        <5>1. ASSUME lockOf[s] = r PROVE FALSE
          <6>1. lockOf[s] # None
            BY <4>1, LocksAssumption
          <6>2. lockOf[r] = r
            BY <5>1, <6>1 DEF KInv, LocksCreated
          <6> QED BY <1>1, <5>1, <6>2 DEF KInv, FreshLock
        <5> QED BY <5>1
      <4> QED BY <1>3, <3>1, <4>1, <4>2, LeaveKeepsCreators
    <3> QED BY <1>1, <1>2, <2>1, <2>5, <2>6, <3>1, CalmMoves DEF OnTheWay
  <2> QED BY <1>1, <2>3, <2>4, <2>6 DEF KInv
<1>4. ASSUME TheHit(r) = {}, Await(r, "forwarding"), UNCHANGED <<locks, body>>
      PROVE  KInv'
  <2>1. /\ pc'[r] = "forwarding"
        /\ \A s \in Requests \ {r} : pc'[s] = pc[s]
    BY <1>4 DEF Await, CInv, HInv, TypeOKHandler
  <2>2. ~Filled(r)
    BY <1>4 DEF TheHit, Hit, Filled
  <2>3. ~Settled(r)'
    BY <2>1 DEF Settled
  <2> QED BY <1>1, <1>2, <1>4, <2>1, <2>2, <2>3, LocksAloneKeepKInv
<1> QED BY <1>3, <1>4 DEF Recheck

\* The creator has filled the cache before it leaves.
LEMMA LogMissKeepsKInv ==
  ASSUME CInv, SInv, KInv, NEW r \in Requests, LogMiss(r)
  PROVE  KInv'
<1>1. /\ pc[r] = "stored" /\ Leave(r)
      /\ pc' = [pc EXCEPT ![r] = "done"]
      /\ UNCHANGED <<entries, ask, body, disturbed>>
  BY DEF LogMiss, Finish, Await, LogRequest, tables
<1>2. \A s \in Requests : Filled(s)' <=> Filled(s)
  BY <1>1, EntriesKeepFilled
<1>3. lockOf' = lockOf /\ keyOf' = keyOf
  BY <1>1 DEF Leave
<1>4. /\ pc'[r] = "done"
      /\ \A s \in Requests \ {r} : pc'[s] = pc[s]
  BY <1>1 DEF CInv, HInv, TypeOKHandler
<1>5. LocksCreated'
  BY <1>1, <1>3, CreatedKept DEF KInv
<1>6. FreshLock'
  BY <1>3, <1>4, FreshKept DEF KInv
<1>7. ~ask[r].bypass /\ Settled(r)
  BY <1>1 DEF SInv, ShapeOf, OnPath, Settled, Paid
<1>8. ASSUME Calm PROVE Calm'
  <2>1. ASSUME NEW s \in Requests \ {r}, pc[s] \in OnTheWay, Unshared(s),
               CreatorInside(s)
        PROVE  CreatorInside(s)' \/ Filled(s)
    <3>1. lockOf[s] \in Requests /\ (Holding(s) \/ Queued(s))
      BY <2>1, OnTheWayHasLock
    <3>2. CASE lockOf[s] # r
      BY <1>1, <2>1, <3>1, <3>2, LeaveKeepsCreators
    <3>3. CASE lockOf[s] = r
      <4>1. lockOf[s] # None /\ lockOf[r] = r /\ keyOf[r] = Key(r)
        BY <3>1, <3>3, LocksAssumption DEF KInv, LocksCreated
      <4>2. keyOf[s] = Key(s)
        BY <4>1 DEF KInv, LocksCreated
      <4>3. holder[r] = r
        BY <1>1, <4>1 DEF Leave, Holding
      <4>4. ~Holding(s)
        BY <3>3, <4>3 DEF Holding
      <4>5. keyOf[s] = keyOf[r]
        <5>1. PICK i \in DOMAIN waiters[r] : waiters[r][i] = s
          BY <3>1, <3>3, <4>4 DEF Queued
        <5> QED BY <5>1 DEF CInv, LInv, QueuesSound
      <4>6. Key(s) = Key(r)
        BY <4>1, <4>2, <4>5
      <4>7. Prompt(s) = Prompt(r) /\ Model(s) = Model(r) /\ User(s) = User(r)
        BY <2>1, <4>6 DEF Key, Unshared
      <4>8. Unshared(r)
        BY <2>1, <4>6, <4>7 DEF Unshared
      <4>9. Filled(r)
        BY <1>7, <1>8, <4>8 DEF Calm
      <4> QED BY <4>7, <4>9 DEF Filled
    <3> QED BY <3>2, <3>3
  <2> QED BY <1>1, <1>2, <1>4, <1>7, <1>8, <2>1, CalmMoves DEF OnTheWay
<1> QED BY <1>1, <1>5, <1>6, <1>8 DEF KInv

\* A failure disturbs: only the locks matter.
LEMMA FailMissKeepsKInv ==
  ASSUME CInv, KInv, NEW r \in Requests, NEW failure, FailMiss(r, failure)
  PROVE  KInv'
<1>1. /\ pc' = [pc EXCEPT ![r] = "done"]
      /\ UNCHANGED <<lockOf, keyOf, ask>>
      /\ disturbed' = TRUE
  BY DEF FailMiss, Finish, Await, Leave
<1>2. \A l \in Requests : pc'[l] = "locked" => pc[l] = "locked"
  BY <1>1 DEF CInv, HInv, TypeOKHandler
<1> QED BY <1>1, <1>2, CreatedKept, FreshKept DEF KInv

\* What a store does to the exact tier.
LEMMA AnswerMissFills ==
  ASSUME CInv, NEW r \in Requests, NEW form \in Forms, AnswerMiss(r, form)
  PROVE  \A s \in Requests :
           Filled(s)' <=> \/ Filled(s)
                          \/ /\ Prompt(s) = Prompt(r)
                             /\ User(s) = User(r) /\ Model(s) = Model(r)
<1> DEFINE old == SameKey(Prompt(r), User(r), Model(r))
<1>0. PICK new \in Nat : new = lastId + 1
  BY DEF CInv, TInv, TypeOK
<1>1. /\ Ids' = (Ids \ old) \cup {new}
      /\ new \notin Ids
      /\ \A i \in Ids' \ {new} : entries'[i] = entries[i]
  BY <1>0, AnswerMissEntries
<1>2. /\ entries'[new].prompt = Prompt(r) /\ entries'[new].user = User(r)
      /\ entries'[new].model = Model(r) /\ entries'[new].left = Ttl
  <2>1. entries'[new] =
          [prompt |-> Prompt(r), user |-> User(r), model |-> Model(r),
           response |-> [origin |-> r, form |-> form], left |-> Ttl, hits |-> 0]
    BY <1>0, AnswerMissEntries
  <2> QED BY <2>1
<1>3. ~PastExpiry(new)'
  BY <1>2, TablesAssumption DEF PastExpiry, Expired
<1>4. \A i \in Ids : i \in old <=>
        /\ entries[i].prompt = Prompt(r) /\ entries[i].user = User(r)
        /\ entries[i].model = Model(r)
  BY DEF SameKey, Scoped
<1> HIDE DEF old
<1> SUFFICES ASSUME NEW s \in Requests
             PROVE  Filled(s)' <=> \/ Filled(s)
                                   \/ /\ Prompt(s) = Prompt(r)
                                      /\ User(s) = User(r) /\ Model(s) = Model(r)
  OBVIOUS
<1>5. /\ Prompt(s)' = Prompt(s) /\ User(s)' = User(s) /\ Model(s)' = Model(s)
  BY DEF AnswerMiss, Prompt, User, Model
<1>6. Filled(s) <=> \E i \in Ids : /\ entries[i].prompt = Prompt(s)
                                  /\ entries[i].user = User(s)
                                  /\ entries[i].model = Model(s)
                                  /\ ~PastExpiry(i)
  BY DEF Filled, ExactHit, SameKey, Scoped
<1>7. Filled(s)' <=> \E i \in Ids' : /\ entries'[i].prompt = Prompt(s)
                                    /\ entries'[i].user = User(s)
                                    /\ entries'[i].model = Model(s)
                                    /\ ~PastExpiry(i)'
  BY <1>5 DEF Filled, ExactHit, SameKey, Scoped
<1>8. \A i \in Ids' \ {new} : PastExpiry(i)' <=> PastExpiry(i)
  BY <1>1 DEF PastExpiry
<1>9. CASE /\ Prompt(s) = Prompt(r) /\ User(s) = User(r)
           /\ Model(s) = Model(r)
  BY <1>1, <1>2, <1>3, <1>7, <1>9
<1>10. CASE ~(/\ Prompt(s) = Prompt(r) /\ User(s) = User(r)
              /\ Model(s) = Model(r))
  <2>1. ASSUME Filled(s) PROVE Filled(s)'
    <3>1. PICK i \in Ids : /\ entries[i].prompt = Prompt(s)
                           /\ entries[i].user = User(s)
                           /\ entries[i].model = Model(s)
                           /\ ~PastExpiry(i)
      BY <1>6, <2>1
    <3>2. i \notin old /\ i # new /\ i \in Ids'
      BY <1>1, <1>4, <1>10, <3>1
    <3> QED BY <1>1, <1>7, <1>8, <3>1, <3>2
  <2>2. ASSUME Filled(s)' PROVE Filled(s)
    <3>1. PICK i \in Ids' : /\ entries'[i].prompt = Prompt(s)
                            /\ entries'[i].user = User(s)
                            /\ entries'[i].model = Model(s)
                            /\ ~PastExpiry(i)'
      BY <1>7, <2>2
    <3>2. i # new /\ i \in Ids
      BY <1>1, <1>2, <1>10, <3>1
    <3> QED BY <1>1, <1>6, <1>8, <3>1, <3>2
  <2> QED BY <1>10, <2>1, <2>2
<1> QED BY <1>9, <1>10

LEMMA AnswerMissKeepsKInv ==
  ASSUME CInv, SInv, KInv, NEW r \in Requests, NEW form \in Forms,
         AnswerMiss(r, form)
  PROVE  KInv'
<1>1. /\ pc[r] = "forwarding"
      /\ UNCHANGED <<locks, ask, disturbed>>
      /\ pc' = [pc EXCEPT ![r] = "stored"]
      /\ body' = [body EXCEPT ![r] = [origin |-> r, form |-> form]]
  BY DEF AnswerMiss, GoOn
<1>2. /\ pc'[r] = "stored"
      /\ \A s \in Requests \ {r} : pc'[s] = pc[s] /\ body'[s] = body[s]
  BY <1>1 DEF CInv, HInv, TypeOKHandler
<1>3. LocksCreated' /\ FreshLock'
  BY <1>1, <1>2, CreatedKept, FreshKept DEF KInv, locks
<1>4. ASSUME Calm PROVE Calm'
  <2>1. \A s \in Requests :
          Filled(s)' <=> \/ Filled(s)
                         \/ /\ Prompt(s) = Prompt(r)
                            /\ User(s) = User(r) /\ Model(s) = Model(r)
    BY AnswerMissFills
  <2>2. \A s \in Requests : /\ Unshared(s)' <=> Unshared(s)
                            /\ CreatorInside(s)' <=> CreatorInside(s)
    BY <1>1 DEF Unshared, Key, User, Prompt, Model, CreatorInside, locks
  <2>3. \A s \in Requests \ {r} : Settled(s)' => Settled(s)
    BY <1>1, <1>2 DEF Settled, Paid
  <2> SUFFICES ASSUME NEW s \in Requests, Unshared(s)
               PROVE  /\ pc'[s] \in OnTheWay => CreatorInside(s)' \/ Filled(s)'
                      /\ pc'[s] = "forwarding" => ~Filled(s)'
                      /\ Settled(s)' => Filled(s)'
                      /\ \A t \in Requests :
                           Settled(s)' /\ Settled(t)' /\ Twins(s, t)' => s = t
    BY <2>2 DEF Calm
  <2>4. pc'[s] \in OnTheWay => CreatorInside(s)' \/ Filled(s)'
    BY <1>2, <1>4, <2>1, <2>2 DEF Calm, OnTheWay
  <2>5. ASSUME pc'[s] = "forwarding" PROVE ~Filled(s)'
    <3>1. s # r /\ pc[s] = "forwarding" /\ ~Filled(s) /\ CreatorInside(s)
      BY <1>2, <1>4, <2>5 DEF Calm, OnTheWay
    <3>2. ASSUME Prompt(s) = Prompt(r), User(s) = User(r), Model(s) = Model(r)
          PROVE  FALSE
      <4>1. Key(s) = Key(r) /\ Unshared(r)
        BY <3>2 DEF Key, Unshared
      <4>2. CreatorInside(r)
        BY <1>1, <1>4, <4>1 DEF Calm, OnTheWay
      <4> QED BY <1>1, <3>1, <4>1, <4>2, CreatorsForwardAlone DEF KInv
    <3> QED BY <2>1, <3>1, <3>2
  <2>6. Settled(s)' => Filled(s)'
    BY <1>4, <2>1, <2>3 DEF Calm
  <2>7. ASSUME NEW t \in Requests, Settled(s)', Settled(t)', Twins(s, t)'
        PROVE  s = t
    <3>1. Twins(s, t) /\ Twins(t, s)
      BY <1>1, <2>7 DEF Twins
    <3>2. /\ Prompt(s) = Prompt(t) /\ User(s) = User(t) /\ Model(s) = Model(t)
          /\ Unshared(t)
      BY <3>1 DEF Twins, Prompt, User, Model, Unshared, Key
    <3>3. ASSUME NEW q \in Requests \ {r}, Settled(q)', Unshared(q),
                 Twins(q, r)
          PROVE  FALSE
      <4>1. Filled(q)
        BY <1>4, <2>3, <3>3 DEF Calm
      <4>2. /\ Prompt(q) = Prompt(r) /\ User(q) = User(r) /\ Model(q) = Model(r)
            /\ Unshared(r)
        BY <3>3 DEF Twins, Prompt, User, Model, Unshared, Key
      <4>3. Filled(r)
        BY <4>1, <4>2 DEF Filled
      <4> QED BY <1>1, <1>4, <4>2, <4>3 DEF Calm
    <3>4. CASE s = r /\ t # r
      BY <2>7, <3>1, <3>2, <3>3, <3>4
    <3>5. CASE s # r /\ t = r
      BY <2>7, <3>1, <3>3, <3>5
    <3>6. CASE s # r /\ t # r
      BY <1>4, <2>3, <2>7, <3>1, <3>6 DEF Calm
    <3> QED BY <3>4, <3>5, <3>6
  <2> QED BY <2>4, <2>5, <2>6, <2>7
<1> QED BY <1>1, <1>3, <1>4 DEF KInv

\* Time takes nothing that could serve, or it disturbs.
LEMMA ClockKeepsKInv ==
  ASSUME CInv, KInv, Clock
  PROVE  KInv'
<1>1. /\ UNCHANGED <<locks, handler>>
      /\ disturbed' = (disturbed \/ \E i \in Ids : entries[i].left = 0)
  BY DEF Clock
<1>2. /\ UNCHANGED <<lockOf, keyOf, ask, pc, body, holder>>
  BY <1>1 DEF locks, handler
<1>3. LocksCreated' /\ FreshLock'
  BY <1>2, CreatedKept, FreshKept DEF KInv
<1>4. ASSUME Calm, \A i \in Ids : entries[i].left # 0 PROVE Calm'
  <2>1. /\ Ids' = Ids
        /\ \A i \in Ids : /\ entries'[i].prompt = entries[i].prompt
                          /\ entries'[i].user = entries[i].user
                          /\ entries'[i].model = entries[i].model
                          /\ entries'[i].left = Aged(entries[i].left)
    BY ClockEntries
  <2>2. \A i \in Ids : PastExpiry(i)' <=> PastExpiry(i)
    <3> SUFFICES ASSUME NEW i \in Ids PROVE PastExpiry(i)' <=> PastExpiry(i)
      OBVIOUS
    <3>1. entries[i].left \in (0 .. Ttl) \cup {Expired} /\ entries[i].left # 0
      BY <1>4 DEF CInv, TInv, TypeOK, Entry
    <3>2. entries'[i].left = Aged(entries[i].left)
      BY <2>1
    <3> QED BY <3>1, <3>2 DEF PastExpiry, Aged, Expired
  <2>3. \A s \in Requests : Filled(s)' <=> Filled(s)
    BY <1>2, <2>1, <2>2, FilledKept
  <2>4. \A s \in Requests : /\ Unshared(s)' <=> Unshared(s)
                            /\ CreatorInside(s)' <=> CreatorInside(s)
                            /\ Settled(s)' <=> Settled(s)
    BY <1>2 DEF Unshared, Key, User, Prompt, Model, CreatorInside, Settled, Paid
  <2>5. \A s, t \in Requests : Twins(s, t)' <=> Twins(s, t)
    BY <1>2 DEF Twins
  <2> QED BY <1>2, <1>4, <2>3, <2>4, <2>5 DEF Calm
<1> QED BY <1>1, <1>3, <1>4 DEF KInv

LEMMA AdminPurgeKeepsKInv ==
  ASSUME KInv, AdminPurge
  PROVE  KInv'
<1>1. UNCHANGED <<lockOf, keyOf, ask, pc>> /\ disturbed' = TRUE
  BY DEF AdminPurge, locks, handler
<1> QED BY <1>1, CreatedKept, FreshKept DEF KInv

LEMMA CrashKeepsKInv ==
  ASSUME Crash
  PROVE  KInv'
<1>1. /\ lockOf' = [r \in Requests |-> None]
      /\ disturbed' = TRUE
  BY DEF Crash
<1>2. LocksCreated' /\ FreshLock'
  BY <1>1, LocksAssumption DEF LocksCreated, FreshLock
<1> QED BY <1>1, <1>2 DEF KInv

LEMMA StutterKeepsKInv ==
  ASSUME KInv, UNCHANGED vars
  PROVE  KInv'
<1>1. UNCHANGED <<lockOf, keyOf, holder, ask, pc, body, entries, disturbed>>
  BY DEF vars, tables, locks, handler
<1>2. LocksCreated' /\ FreshLock'
  BY <1>1, CreatedKept, FreshKept DEF KInv
<1>3. \A s \in Requests : /\ Unshared(s)' <=> Unshared(s)
                          /\ CreatorInside(s)' <=> CreatorInside(s)
                          /\ Settled(s)' <=> Settled(s)
                          /\ Filled(s)' <=> Filled(s)
  <2>1. \A s \in Requests : Filled(s)' <=> Filled(s)
    BY <1>1, EntriesKeepFilled
  <2> QED
    BY <1>1, <2>1
    DEF Unshared, Key, User, Prompt, Model, CreatorInside, Settled, Paid
<1>4. \A s, t \in Requests : Twins(s, t)' <=> Twins(s, t)
  BY <1>1 DEF Twins
<1>5. Calm => Calm'
  BY <1>1, <1>3, <1>4 DEF Calm
<1> QED BY <1>1, <1>2, <1>5 DEF KInv

LEMMA InitEstablishesKInv == Init => KInv
<1> SUFFICES ASSUME Init PROVE KInv
  OBVIOUS
<1>1. \A r \in Requests : lockOf[r] = None /\ pc[r] = "new"
  BY DEF Init, InitLocks
<1>2. LocksCreated /\ FreshLock
  BY <1>1, LocksAssumption DEF LocksCreated, FreshLock
<1>3. Calm
  BY <1>1 DEF Calm, OnTheWay, Settled, Paid
<1> QED BY <1>2, <1>3 DEF KInv

LEMMA NextPreservesKInv == CInv /\ SInv /\ KInv /\ [Next]_vars => KInv'
<1> SUFFICES ASSUME CInv, SInv, KInv, [Next]_vars PROVE KInv'
  OBVIOUS
<1>1. ASSUME NEW r \in Requests, Arrival(r) PROVE KInv'
  BY <1>1, QuietStepsKeepKInv, ArriveKeepsKInv DEF Arrival
<1>2. ASSUME NEW r \in Requests, Serve(r) PROVE KInv'
  <2>1. ASSUME NEW form \in Forms, AnswerMiss(r, form) PROVE KInv'
    BY <2>1, AnswerMissKeepsKInv
  <2>2. ASSUME NEW form \in Forms, AnswerBypass(r, form) PROVE KInv'
    BY <2>2, QuietStepsKeepKInv
  <2>3. ASSUME NEW failure \in Failures, FailMiss(r, failure) PROVE KInv'
    BY <2>3, FailMissKeepsKInv
  <2>4. ASSUME NEW failure \in Failures, FailBypass(r, failure) PROVE KInv'
    BY <2>4, QuietStepsKeepKInv
  <2>5. ASSUME LogHit(r) PROVE KInv'
    BY <2>5, QuietStepsKeepKInv
  <2> QED BY <1>2, <2>1, <2>2, <2>3, <2>4, <2>5, AcquireKeepsKInv,
             RecheckKeepsKInv, LogMissKeepsKInv DEF Serve
<1>3. CASE AdminPurge \/ Clock \/ Crash
  BY <1>3, AdminPurgeKeepsKInv, ClockKeepsKInv, CrashKeepsKInv
<1>4. CASE UNCHANGED vars
  BY <1>4, StutterKeepsKInv
<1> QED BY <1>1, <1>2, <1>3, <1>4 DEF Next, Quiet

\* Of identical requests at most one pays for an upstream call, unless a call
\* failed, an entry was lost, or another user asks the same.
THEOREM StampedesAreCoalesced == Spec => []StampedeCoalesced
<1>1. CInv /\ SInv /\ KInv /\ [Next]_vars => KInv'
  BY NextPreservesKInv
<1>2. CInv /\ SInv /\ KInv => StampedeCoalesced
  BY CalmGivesCoalesced
<1> QED BY <1>1, <1>2, InitEstablishesKInv, StagesInvariance, PTL DEF Spec

=============================================================================
