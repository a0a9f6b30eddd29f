-------------------------- MODULE ChatProxyProofs --------------------------
(***************************************************************************)
(* The handler, for every set of requests, users, models and prompts,      *)
(* every similarity and veto, and any number of purges and kills.          *)
(*                                                                         *)
(* The invariants of the tables and of the locks carry over, because every *)
(* step of the handler is a step of each or leaves it alone.  That answers *)
(* stay with their user and model needs what the entries hold to be known: *)
(* an entry keeps the key of the request that paid for it.  That the log   *)
(* row of an answer can be written needs that nobody else runs between the *)
(* lookup or the store and that row.                                       *)
(***************************************************************************)
EXTENDS ChatProxy, CacheTablesProofs, InflightLocksProofs

\* Stages of a coroutine that has not reached an await.
InStretch == {"locked", "serving", "stored"}

TypeOKHandler ==
  /\ ask \in [Requests -> Asks]
  /\ pc \in [Requests -> Stages]
  /\ running \in Requests \cup {None}
  /\ got \in [Requests -> Nat]
  /\ body \in [Requests -> Responses \cup {None}]
  /\ reply \in [Requests -> Replies]
  /\ crashes \in 0 .. MaxCrashes
  /\ disturbed \in BOOLEAN

\* Only the running coroutine is inside a stretch.
StretchSound ==
  \A r \in Requests : pc[r] \in InStretch => running = r

\* The entry a request is about to log exists and is its user's.
GotOwn ==
  \A r \in Requests :
    pc[r] \in {"serving", "stored"} =>
      got[r] \in Ids /\ entries[got[r]].user = User(r)

\* An entry has the key of the request whose call produced its response.
StoredProvenance ==
  \A i \in Ids :
    LET o == entries[i].response.origin
    IN  /\ o \in Requests
        /\ entries[i].user = User(o)
        /\ entries[i].model = Model(o)
        /\ entries[i].prompt = Prompt(o)

\* The answer to request o may be given to request r.
Fits(o, r) ==
  /\ User(o) = User(r) /\ Model(o) = Model(r)
  /\ \/ Prompt(o) = Prompt(r)
     \/ /\ Similarity(Prompt(r), Prompt(o)) >= Threshold
        /\ <<Prompt(r), Prompt(o)>> \notin Vetoed

HInv ==
  /\ TypeOKHandler
  /\ StretchSound
  /\ GotOwn
  /\ StoredProvenance
  /\ AnswerProvenance

CInv == TInv /\ LInv /\ HInv

-----------------------------------------------------------------------------
LEMMA AskFields ==
  ASSUME TypeOKHandler, NEW r \in Requests
  PROVE  /\ Prompt(r) \in Prompts /\ User(r) \in Users /\ Model(r) \in Models
         /\ Key(r) \in Keys
BY ChatAssumption DEF TypeOKHandler, Prompt, User, Model, Key

\* What a lookup leaves: some entries less, expired ones, and the others as
\* they were but for the hit it counts.
LEMMA LookupKeepsRows ==
  ASSUME TInv, NEW p \in Prompts, NEW u \in Users, NEW m \in Models,
         Lookup(p, u, m)
  PROVE  /\ Ids' \subseteq Ids
         /\ \A i \in Ids \ Ids' : PastExpiry(i)
         /\ \A i \in Ids' : /\ entries'[i].prompt = entries[i].prompt
                            /\ entries'[i].user = entries[i].user
                            /\ entries'[i].model = entries[i].model
                            /\ entries'[i].response = entries[i].response
                            /\ entries'[i].left = entries[i].left
                            /\ entries'[i].hits =
                                 entries[i].hits + (IF i \in Hit(p, u, m) THEN 1 ELSE 0)
         /\ log' = Detached(Ids \ Ids')
<1> DEFINE gone == ExactExpired(p, u, m)
           hit == Hit(p, u, m)
<1>1. /\ entries' = [i \in Ids \ gone |->
                       IF i \in hit THEN Served(entries[i]) ELSE entries[i]]
      /\ log' = Detached(gone)
      /\ \A i \in gone : PastExpiry(i)
      /\ gone \subseteq Ids
  BY DEF Lookup, ExactExpired, SameKey, Scoped
<1> HIDE DEF gone, hit
<1>2. Ids' = Ids \ gone
  BY <1>1 DEF Ids
<1>3. Ids \ Ids' = gone
  BY <1>1, <1>2
<1>4. ASSUME NEW i \in Ids'
      PROVE  /\ entries'[i].prompt = entries[i].prompt
             /\ entries'[i].user = entries[i].user
             /\ entries'[i].model = entries[i].model
             /\ entries'[i].response = entries[i].response
             /\ entries'[i].left = entries[i].left
             /\ entries'[i].hits = entries[i].hits + (IF i \in hit THEN 1 ELSE 0)
  <2>1. entries[i] \in Entry /\ entries[i].hits \in Nat
    BY <1>2 DEF TInv, TypeOK, Entry
  <2>2. CASE i \in hit
    <3>1. entries'[i] = [entries[i] EXCEPT !.hits = entries[i].hits + 1]
      BY <1>1, <1>2, <2>2 DEF Served
    <3> QED BY <2>1, <2>2, <3>1 DEF Entry
  <2>3. CASE i \notin hit
    <3>1. entries'[i] = entries[i]
      BY <1>1, <1>2, <2>3
    <3> QED BY <2>1, <2>3, <3>1
  <2> QED BY <2>2, <2>3
<1> QED BY <1>1, <1>2, <1>3, <1>4 DEF hit

LEMMA HitsExist ==
  ASSUME NEW p, NEW u, NEW m
  PROVE  Hit(p, u, m) \subseteq Ids
BY DEF Hit, ExactHit, SemanticHit, Nearest, Candidates, SameKey, Scoped

\* The entry a request takes over from a lookup survives that lookup, is its
\* user's, and holds an answer that fits.
LEMMA HitFits ==
  ASSUME TInv, TypeOKHandler, StoredProvenance,
         NEW r \in Requests, NEW i \in TheHit(r),
         Lookup(Prompt(r), User(r), Model(r))
  PROVE  /\ i \in Ids /\ i \in Ids'
         /\ entries'[i].user = User(r)
         /\ entries[i].response \in Responses
         /\ ~PastExpiry(i)
         /\ Fits(entries[i].response.origin, r)
<1> DEFINE p == Prompt(r)
           u == User(r)
           m == Model(r)
<1>1. p \in Prompts /\ u \in Users /\ m \in Models
  BY AskFields
<1>2. i \in Hit(p, u, m) /\ i \in Ids
  BY HitsExist DEF TheHit
<1> HIDE DEF p, u, m
<1>3. LookupSound
  BY InvariantGivesLookupSound
<1>4. /\ entries[i].user = u /\ entries[i].model = m
      /\ ~PastExpiry(i)
      /\ \/ entries[i].prompt = p
         \/ /\ Similarity(p, entries[i].prompt) >= Threshold
            /\ <<p, entries[i].prompt>> \notin Vetoed
  BY <1>1, <1>2, <1>3 DEF LookupSound
<1>5. Lookup(p, u, m)
  BY DEF p, u, m
<1>6. i \in Ids' /\ entries'[i].user = entries[i].user
  BY <1>1, <1>2, <1>4, <1>5, LookupKeepsRows
<1>7. entries[i].response \in Responses
  BY <1>2 DEF TInv, TypeOK, Entry
<1>8. Fits(entries[i].response.origin, r)
  BY <1>2, <1>4 DEF StoredProvenance, Fits, p, u, m
<1> QED BY <1>2, <1>4, <1>6, <1>7, <1>8 DEF u

\* Rows that stay keep their provenance.
LEMMA RowsKeepProvenance ==
  ASSUME StoredProvenance, ask' = ask, Ids' \subseteq Ids,
         \A i \in Ids' : /\ entries'[i].prompt = entries[i].prompt
                         /\ entries'[i].user = entries[i].user
                         /\ entries'[i].model = entries[i].model
                         /\ entries'[i].response = entries[i].response
  PROVE  StoredProvenance'
BY DEF StoredProvenance, User, Model, Prompt

\* A move of the running coroutine, or of one the loop resumes: the others are
\* at awaits before and after it.
LEMMA MoveKeepsStretch ==
  ASSUME TypeOKHandler, StretchSound, NEW r \in Requests, NEW stage \in Stages,
         running \in {None, r},
         \/ Await(r, stage) /\ stage \notin InStretch
         \/ GoOn(r, stage)
  PROVE  /\ pc' \in [Requests -> Stages]
         /\ running' \in Requests \cup {None}
         /\ StretchSound'
         /\ pc'[r] = stage
         /\ \A s \in Requests \ {r} : pc'[s] \notin InStretch
<1>1. /\ pc' = [pc EXCEPT ![r] = stage]
      /\ running' = r \/ (running' = None /\ stage \notin InStretch)
  BY DEF Await, GoOn
<1>2. \A s \in Requests \ {r} : pc'[s] = pc[s] /\ pc[s] \notin InStretch
  BY <1>1, LocksAssumption DEF TypeOKHandler, StretchSound
<1>3. pc' \in [Requests -> Stages] /\ pc'[r] = stage
  BY <1>1 DEF TypeOKHandler
<1>4. StretchSound'
  BY <1>1, <1>2, <1>3 DEF StretchSound
<1> QED BY <1>1, <1>2, <1>3, <1>4

\* No request but r is about to log, and r owns what it has got.
LEMMA OwnGot ==
  ASSUME NEW r \in Requests,
         \A s \in Requests \ {r} : pc'[s] \notin InStretch,
         pc'[r] \in {"serving", "stored"} =>
           got'[r] \in Ids' /\ entries'[got'[r]].user = User(r)'
  PROVE  GotOwn'
BY DEF GotOwn, InStretch

\* Bodies that stay, and one that fits.
LEMMA BodyFits ==
  ASSUME AnswerProvenance, TypeOKHandler, ask' = ask, NEW r \in Requests,
         NEW response \in Responses, body' = [body EXCEPT ![r] = response],
         Fits(response.origin, r)
  PROVE  AnswerProvenance'
<1>1. \A s \in Requests : body'[s] = IF s = r THEN response ELSE body[s]
  BY DEF TypeOKHandler
<1> QED
  BY <1>1 DEF AnswerProvenance, Fits, User, Model, Prompt

LEMMA BodiesStay ==
  ASSUME AnswerProvenance, ask' = ask, body' = body
  PROVE  AnswerProvenance'
BY DEF AnswerProvenance, User, Model, Prompt

\* A request's own answer fits it.
LEMMA OwnAnswerFits ==
  ASSUME NEW r \in Requests, NEW form \in Forms
  PROVE  /\ [origin |-> r, form |-> form] \in Responses
         /\ Fits([origin |-> r, form |-> form].origin, r)
BY ChatAssumption DEF Fits

-----------------------------------------------------------------------------
LEMMA InitEstablishesCInv == Init => CInv
<1> SUFFICES ASSUME Init PROVE CInv
  OBVIOUS
<1>1. TInv /\ LInv
  BY InitEstablishesTInv, InitEstablishesLInv DEF Init
<1>2. TypeOKHandler
  <2>1. crashes \in 0 .. MaxCrashes
    BY ChatAssumption DEF Init
  <2>2. disturbed \in BOOLEAN
    BY DEF Init
  <2>3. /\ pc \in [Requests -> Stages]
        /\ reply \in [Requests -> Replies]
        /\ got \in [Requests -> Nat]
    BY DEF Init, Stages, Replies, NoEntry
  <2>4. /\ ask \in [Requests -> Asks]
        /\ running \in Requests \cup {None}
        /\ body \in [Requests -> Responses \cup {None}]
    BY DEF Init
  <2> QED BY <2>1, <2>2, <2>3, <2>4 DEF TypeOKHandler
<1>3. StretchSound /\ GotOwn
  BY DEF Init, StretchSound, GotOwn, InStretch
<1>4. StoredProvenance
  BY DEF Init, InitTables, StoredProvenance, Ids
<1>5. AnswerProvenance
  BY DEF Init, AnswerProvenance
<1> QED BY <1>1, <1>2, <1>3, <1>4, <1>5 DEF CInv, HInv

\* The steps that end at an await and touch neither tables nor locks nor what
\* the request holds.
LEMMA QuietMovePreservesCInv ==
  ASSUME CInv, NEW r \in Requests, NEW stage \in Stages \ InStretch,
         running = None, Await(r, stage), reply' \in [Requests -> Replies],
         UNCHANGED <<tables, locks, ask, got, body, crashes, disturbed>>
  PROVE  CInv'
<1>1. TInv' /\ LInv'
  BY StutterPreservesTInv, StutterPreservesLInv DEF CInv
<1>2. /\ pc' \in [Requests -> Stages]
      /\ running' \in Requests \cup {None}
      /\ StretchSound'
      /\ pc'[r] = stage
      /\ \A s \in Requests \ {r} : pc'[s] \notin InStretch
  BY MoveKeepsStretch DEF CInv, HInv
<1>3. TypeOKHandler'
  BY <1>2 DEF CInv, HInv, TypeOKHandler
<1>4. GotOwn'
  BY <1>2, OwnGot DEF InStretch
<1>5. StoredProvenance'
  BY RowsKeepProvenance DEF CInv, HInv, tables, Ids
<1>6. AnswerProvenance'
  BY BodiesStay DEF CInv, HInv
<1> QED BY <1>1, <1>2, <1>3, <1>4, <1>5, <1>6 DEF CInv, HInv

LEMMA RejectPreservesCInv ==
  ASSUME CInv, NEW r \in Requests, Reject(r)
  PROVE  CInv'
<1>1. "done" \in Stages \ InStretch /\ "4xx" \in Replies
  BY DEF Stages, InStretch, Replies
<1>2. /\ running = None /\ Await(r, "done")
      /\ reply' = [reply EXCEPT ![r] = "4xx"]
      /\ UNCHANGED <<tables, locks, ask, got, body, crashes, disturbed>>
  BY DEF Reject, Finish
<1>3. reply' \in [Requests -> Replies]
  BY <1>1, <1>2 DEF CInv, HInv, TypeOKHandler
<1> QED BY <1>1, <1>2, <1>3, QuietMovePreservesCInv

LEMMA ArriveBypassPreservesCInv ==
  ASSUME CInv, NEW r \in Requests, ArriveBypass(r)
  PROVE  CInv'
<1>1. "bypassing" \in Stages \ InStretch
  BY DEF Stages, InStretch
<1>2. /\ running = None /\ Await(r, "bypassing")
      /\ reply' = reply
      /\ UNCHANGED <<tables, locks, ask, got, body, crashes, disturbed>>
  BY DEF ArriveBypass
<1>3. reply' \in [Requests -> Replies]
  BY <1>2 DEF CInv, HInv, TypeOKHandler
<1> QED BY <1>1, <1>2, <1>3, QuietMovePreservesCInv

\* A lookup, and what the request does with its result: take the hit and go on
\* to log it, or move without one.  The locks are the caller's.
LEMMA LookupStepPreservesHInv ==
  ASSUME CInv, NEW r \in Requests, NEW stage \in Stages, running \in {None, r},
         Lookup(Prompt(r), User(r), Model(r)),
         UNCHANGED <<ask, reply, crashes, disturbed>>,
         \/ \E i \in TheHit(r) : Take(i, r) /\ GoOn(r, "serving")
         \/ /\ \/ Await(r, stage) /\ stage \notin InStretch
               \/ GoOn(r, stage) /\ stage = "locked"
            /\ UNCHANGED <<got, body>>
  PROVE  TInv' /\ HInv'
<1> DEFINE p == Prompt(r)
           u == User(r)
           m == Model(r)
<1>1. p \in Prompts /\ u \in Users /\ m \in Models
  BY AskFields DEF CInv, HInv
<1>2. Lookup(p, u, m)
  OBVIOUS
<1> HIDE DEF p, u, m
<1>3. TInv'
  BY <1>1, <1>2, LookupPreservesTInv DEF CInv
<1>4. StoredProvenance'
  BY <1>1, <1>2, LookupKeepsRows, RowsKeepProvenance DEF CInv, HInv
<1>5. CASE \E i \in TheHit(r) : Take(i, r) /\ GoOn(r, "serving")
  <2>1. PICK i \in TheHit(r) : Take(i, r) /\ GoOn(r, "serving")
    BY <1>5
  <2>2. /\ i \in Ids /\ i \in Ids'
        /\ entries'[i].user = User(r)
        /\ entries[i].response \in Responses
        /\ Fits(entries[i].response.origin, r)
    BY HitFits DEF CInv, HInv
  <2>3. "serving" \in Stages
    BY DEF Stages
  <2>4. /\ pc' \in [Requests -> Stages]
        /\ running' \in Requests \cup {None}
        /\ StretchSound'
        /\ pc'[r] = "serving"
        /\ \A s \in Requests \ {r} : pc'[s] \notin InStretch
    BY <2>1, <2>3, MoveKeepsStretch DEF CInv, HInv
  <2>5. i \in Nat
    BY <2>2 DEF CInv, TInv, TypeOK
  <2>6. /\ got' = [got EXCEPT ![r] = i]
        /\ body' = [body EXCEPT ![r] = entries[i].response]
    BY <2>1 DEF Take
  <2>7. got' \in [Requests -> Nat] /\ got'[r] = i
    BY <2>5, <2>6 DEF CInv, HInv, TypeOKHandler
  <2>8. body' \in [Requests -> Responses \cup {None}]
    BY <2>2, <2>6 DEF CInv, HInv, TypeOKHandler
  <2>9. TypeOKHandler'
    BY <2>4, <2>7, <2>8 DEF CInv, HInv, TypeOKHandler
  <2>10. GotOwn'
    BY <2>2, <2>4, <2>7, OwnGot DEF User
  <2>11. AnswerProvenance'
    BY <2>2, <2>6, BodyFits DEF CInv, HInv
  <2> QED BY <1>3, <1>4, <2>4, <2>9, <2>10, <2>11 DEF HInv
<1>6. CASE /\ \/ Await(r, stage) /\ stage \notin InStretch
              \/ GoOn(r, stage) /\ stage = "locked"
           /\ UNCHANGED <<got, body>>
  <2>1. /\ pc' \in [Requests -> Stages]
        /\ running' \in Requests \cup {None}
        /\ StretchSound'
        /\ pc'[r] = stage
        /\ \A s \in Requests \ {r} : pc'[s] \notin InStretch
    BY <1>6, MoveKeepsStretch DEF CInv, HInv
  <2>2. TypeOKHandler'
    BY <1>6, <2>1 DEF CInv, HInv, TypeOKHandler
  <2>3. GotOwn'
    BY <1>6, <2>1, OwnGot DEF InStretch
  <2>4. AnswerProvenance'
    BY <1>6, BodiesStay DEF CInv, HInv
  <2> QED BY <1>3, <1>4, <2>1, <2>2, <2>3, <2>4 DEF HInv
<1> QED BY <1>5, <1>6

LEMMA ArrivePreservesCInv ==
  ASSUME CInv, NEW r \in Requests, Arrive(r)
  PROVE  CInv'
<1>1. "locked" \in Stages /\ "waiting" \in Stages \ InStretch
  BY DEF Stages, InStretch
<1>2. /\ running = None
      /\ Lookup(Prompt(r), User(r), Model(r))
      /\ UNCHANGED <<ask, reply, crashes, disturbed>>
  BY DEF Arrive
<1>3. CASE /\ \E i \in TheHit(r) : Take(i, r) /\ GoOn(r, "serving")
           /\ UNCHANGED locks
  <2>1. LInv'
    BY <1>3, StutterPreservesLInv DEF CInv
  <2>2. TInv' /\ HInv'
    BY <1>1, <1>2, <1>3, LookupStepPreservesHInv
  <2> QED BY <2>1, <2>2 DEF CInv
<1>4. CASE /\ Enter(r, Key(r))
           /\ GoOn(r, "locked") \/ Await(r, "waiting")
           /\ UNCHANGED <<got, body>>
  <2>1. Key(r) \in Keys
    BY AskFields DEF CInv, HInv
  <2>2. LInv'
    BY <1>4, <2>1, EnterPreservesLInv DEF CInv
  <2>3. TInv' /\ HInv'
    BY <1>1, <1>2, <1>4, LookupStepPreservesHInv
  <2> QED BY <2>2, <2>3 DEF CInv
<1> QED BY <1>3, <1>4 DEF Arrive

LEMMA RecheckPreservesCInv ==
  ASSUME CInv, NEW r \in Requests, Recheck(r)
  PROVE  CInv'
<1>1. "forwarding" \in Stages \ InStretch
  BY DEF Stages, InStretch
<1>2. /\ running = r
      /\ Lookup(Prompt(r), User(r), Model(r))
      /\ UNCHANGED <<ask, reply, crashes, disturbed>>
      /\ \/ /\ \E i \in TheHit(r) : Take(i, r) /\ GoOn(r, "serving")
            /\ Leave(r)
         \/ Await(r, "forwarding") /\ UNCHANGED <<locks, got, body>>
  BY DEF Recheck
<1>3. TInv' /\ HInv'
  BY <1>1, <1>2, LookupStepPreservesHInv
<1>4. LInv'
  BY <1>2, LeavePreservesLInv, StutterPreservesLInv DEF CInv
<1> QED BY <1>3, <1>4 DEF CInv

LEMMA AcquirePreservesCInv ==
  ASSUME CInv, NEW r \in Requests, Acquire(r)
  PROVE  CInv'
<1>1. /\ running = None /\ Resume(r) /\ GoOn(r, "locked")
      /\ UNCHANGED <<tables, ask, got, body, reply, crashes, disturbed>>
  BY DEF Acquire
<1>2. "locked" \in Stages
  BY DEF Stages
<1>3. TInv' /\ LInv'
  BY <1>1, StutterPreservesTInv, ResumePreservesLInv DEF CInv
<1>4. /\ pc' \in [Requests -> Stages]
      /\ running' \in Requests \cup {None}
      /\ StretchSound'
      /\ pc'[r] = "locked"
      /\ \A s \in Requests \ {r} : pc'[s] \notin InStretch
  BY <1>1, <1>2, MoveKeepsStretch DEF CInv, HInv
<1>5. TypeOKHandler'
  BY <1>1, <1>4 DEF CInv, HInv, TypeOKHandler
<1>6. GotOwn'
  BY <1>4, OwnGot
<1>7. StoredProvenance'
  BY <1>1, RowsKeepProvenance DEF CInv, HInv, tables, Ids
<1>8. AnswerProvenance'
  BY <1>1, BodiesStay DEF CInv, HInv
<1> QED BY <1>3, <1>4, <1>5, <1>6, <1>7, <1>8 DEF CInv, HInv

\* A request ends: it may write a row, which refers to an entry of its own user
\* or to none, and it may have come by an answer of its own.  The locks are the
\* caller's.
LEMMA FinishPreservesHInv ==
  ASSUME CInv, NEW r \in Requests, NEW outcome \in Replies,
         running \in {None, r}, Finish(r, outcome),
         \/ UNCHANGED tables
         \/ \E o \in Outcomes, i \in Ids \cup {NoEntry} :
              /\ i \in Ids => entries[i].user = User(r)
              /\ LogRequest(o, User(r), i),
         \/ body' = body
         \/ \E form \in Forms :
              body' = [body EXCEPT ![r] = [origin |-> r, form |-> form]],
         UNCHANGED <<ask, got, crashes>>, disturbed' \in BOOLEAN
  PROVE  TInv' /\ HInv'
<1>1. TInv'
  <2>1. User(r) \in Users
    BY AskFields DEF CInv, HInv
  <2> QED BY <2>1, LogRequestPreservesTInv, StutterPreservesTInv DEF CInv
<1>2. entries' = entries
  BY DEF LogRequest, tables
<1>3. "done" \in Stages /\ "done" \notin InStretch
  BY DEF Stages, InStretch
<1>4. /\ pc' \in [Requests -> Stages]
      /\ running' \in Requests \cup {None}
      /\ StretchSound'
      /\ pc'[r] = "done"
      /\ \A s \in Requests \ {r} : pc'[s] \notin InStretch
  BY <1>3, MoveKeepsStretch DEF CInv, HInv, Finish
<1>5. reply' \in [Requests -> Replies]
  BY DEF Finish, CInv, HInv, TypeOKHandler
<1>6. body' \in [Requests -> Responses \cup {None}] /\ AnswerProvenance'
  <2>1. CASE body' = body
    BY <2>1, BodiesStay DEF CInv, HInv, TypeOKHandler
  <2>2. ASSUME NEW form \in Forms,
               body' = [body EXCEPT ![r] = [origin |-> r, form |-> form]]
        PROVE  body' \in [Requests -> Responses \cup {None}] /\ AnswerProvenance'
    <3> DEFINE response == [origin |-> r, form |-> form]
    <3>1. response \in Responses /\ Fits(response.origin, r)
      BY OwnAnswerFits
    <3>2. body' = [body EXCEPT ![r] = response]
      BY <2>2
    <3> HIDE DEF response
    <3>3. AnswerProvenance'
      BY <3>1, <3>2, BodyFits DEF CInv, HInv
    <3>4. body' \in [Requests -> Responses \cup {None}]
      BY <3>1, <3>2 DEF CInv, HInv, TypeOKHandler
    <3> QED BY <3>3, <3>4
  <2> QED BY <2>1, <2>2
<1>7. TypeOKHandler'
  BY <1>4, <1>5, <1>6 DEF CInv, HInv, TypeOKHandler
<1>8. GotOwn'
  BY <1>4, OwnGot
<1>9. StoredProvenance'
  BY <1>2, RowsKeepProvenance DEF CInv, HInv, Ids
<1> QED BY <1>1, <1>4, <1>6, <1>7, <1>8, <1>9 DEF HInv

LEMMA FailMissPreservesCInv ==
  ASSUME CInv, NEW r \in Requests, NEW failure, FailMiss(r, failure)
  PROVE  CInv'
<1>1. /\ running = None /\ Leave(r)
      /\ Finish(r, "ERROR") \/ Finish(r, "500")
      /\ LogRequest("ERROR", User(r), NoEntry) \/ UNCHANGED tables
      /\ disturbed' = TRUE
      /\ UNCHANGED <<ask, got, body, crashes>>
  BY DEF FailMiss
<1>2. "ERROR" \in Outcomes /\ "ERROR" \in Replies /\ "500" \in Replies
  BY DEF Outcomes, Replies
<1>3. NoEntry \notin Ids
  BY DEF CInv, TInv, TypeOK, NoEntry
<1>4. TInv' /\ HInv'
  BY <1>1, <1>2, <1>3, FinishPreservesHInv
<1>5. LInv'
  BY <1>1, LeavePreservesLInv DEF CInv
<1> QED BY <1>4, <1>5 DEF CInv

LEMMA LogMissPreservesCInv ==
  ASSUME CInv, NEW r \in Requests, LogMiss(r)
  PROVE  CInv'
<1>1. /\ running = r /\ pc[r] = "stored" /\ Leave(r)
      /\ Finish(r, Outcome("MISS", body[r]))
      /\ LogRequest("MISS", User(r), got[r]) \/ UNCHANGED tables
      /\ UNCHANGED <<ask, got, body, crashes, disturbed>>
  BY DEF LogMiss
<1>2. "MISS" \in Outcomes /\ Outcome("MISS", body[r]) \in Replies
  BY DEF Outcomes, Replies, Outcome
<1>3. got[r] \in Ids /\ entries[got[r]].user = User(r)
  BY <1>1 DEF CInv, HInv, GotOwn
<1>4. disturbed' \in BOOLEAN
  BY <1>1 DEF CInv, HInv, TypeOKHandler
<1>5. TInv' /\ HInv'
  BY <1>1, <1>2, <1>3, <1>4, FinishPreservesHInv
<1>6. LInv'
  BY <1>1, LeavePreservesLInv DEF CInv
<1> QED BY <1>5, <1>6 DEF CInv

LEMMA LogHitPreservesCInv ==
  ASSUME CInv, NEW r \in Requests, LogHit(r)
  PROVE  CInv'
<1>1. /\ running = r /\ pc[r] = "serving"
      /\ Finish(r, Outcome("HIT", body[r]))
      /\ LogRequest("HIT", User(r), got[r]) \/ UNCHANGED tables
      /\ UNCHANGED <<locks, ask, got, body, crashes, disturbed>>
  BY DEF LogHit
<1>2. "HIT" \in Outcomes /\ Outcome("HIT", body[r]) \in Replies
  BY DEF Outcomes, Replies, Outcome
<1>3. got[r] \in Ids /\ entries[got[r]].user = User(r)
  BY <1>1 DEF CInv, HInv, GotOwn
<1>4. disturbed' \in BOOLEAN
  BY <1>1 DEF CInv, HInv, TypeOKHandler
<1>5. TInv' /\ HInv'
  BY <1>1, <1>2, <1>3, <1>4, FinishPreservesHInv
<1>6. LInv'
  BY <1>1, StutterPreservesLInv DEF CInv
<1> QED BY <1>5, <1>6 DEF CInv

LEMMA AnswerBypassPreservesCInv ==
  ASSUME CInv, NEW r \in Requests, NEW form \in Forms, AnswerBypass(r, form)
  PROVE  CInv'
<1> DEFINE response == [origin |-> r, form |-> form]
<1>1. /\ running = None
      /\ Finish(r, Outcome("BYPASS", response))
      /\ LogRequest("BYPASS", User(r), NoEntry) \/ UNCHANGED tables
      /\ body' = [body EXCEPT ![r] = [origin |-> r, form |-> form]]
      /\ UNCHANGED <<locks, ask, got, crashes, disturbed>>
  BY DEF AnswerBypass
<1>2. "BYPASS" \in Outcomes /\ Outcome("BYPASS", response) \in Replies
  BY DEF Outcomes, Replies, Outcome
<1>3. NoEntry \notin Ids
  BY DEF CInv, TInv, TypeOK, NoEntry
<1>4. disturbed' \in BOOLEAN
  BY <1>1 DEF CInv, HInv, TypeOKHandler
<1>5. TInv' /\ HInv'
  BY <1>1, <1>2, <1>3, <1>4, FinishPreservesHInv
<1>6. LInv'
  BY <1>1, StutterPreservesLInv DEF CInv
<1> QED BY <1>5, <1>6 DEF CInv

LEMMA FailBypassPreservesCInv ==
  ASSUME CInv, NEW r \in Requests, NEW failure, FailBypass(r, failure)
  PROVE  CInv'
<1>1. /\ running = None
      /\ Finish(r, "ERROR") \/ Finish(r, "500")
      /\ LogRequest("ERROR", User(r), NoEntry) \/ UNCHANGED tables
      /\ UNCHANGED <<locks, ask, got, body, crashes, disturbed>>
  BY DEF FailBypass
<1>2. "ERROR" \in Outcomes /\ "ERROR" \in Replies /\ "500" \in Replies
  BY DEF Outcomes, Replies
<1>3. NoEntry \notin Ids
  BY DEF CInv, TInv, TypeOK, NoEntry
<1>4. disturbed' \in BOOLEAN
  BY <1>1 DEF CInv, HInv, TypeOKHandler
<1>5. TInv' /\ HInv'
  BY <1>1, <1>2, <1>3, <1>4, FinishPreservesHInv
<1>6. LInv'
  BY <1>1, StutterPreservesLInv DEF CInv
<1> QED BY <1>5, <1>6 DEF CInv

LEMMA AnswerMissPreservesCInv ==
  ASSUME CInv, NEW r \in Requests, NEW form \in Forms, AnswerMiss(r, form)
  PROVE  CInv'
<1> DEFINE response == [origin |-> r, form |-> form]
           row == [prompt |-> Prompt(r), user |-> User(r), model |-> Model(r),
                   response |-> response, left |-> Ttl, hits |-> 0]
           old == SameKey(Prompt(r), User(r), Model(r))
<1>1. /\ running = None
      /\ Store(Prompt(r), User(r), Model(r), response)
      /\ got' = [got EXCEPT ![r] = lastId + 1]
      /\ body' = [body EXCEPT ![r] = response]
      /\ GoOn(r, "stored")
      /\ UNCHANGED <<locks, ask, reply, crashes, disturbed>>
  BY DEF AnswerMiss
<1>2. response \in Responses /\ Fits(response.origin, r)
  BY OwnAnswerFits
<1>3. /\ lastId' = lastId + 1
      /\ entries' = [i \in (Ids \ old) \cup {lastId + 1} |->
                       IF i = lastId + 1 THEN row ELSE entries[i]]
  BY <1>1 DEF Store, NewId
<1>4. /\ row.prompt = Prompt(r) /\ row.user = User(r) /\ row.model = Model(r)
      /\ row.response.origin = r
  OBVIOUS
<1>5. Prompt(r) \in Prompts /\ User(r) \in Users /\ Model(r) \in Models
  BY AskFields DEF CInv, HInv
<1>6. TInv'
  BY <1>1, <1>2, <1>5, StorePreservesTInv DEF CInv
<1>7. LInv'
  BY <1>1, StutterPreservesLInv DEF CInv
<1> HIDE DEF response, row, old
<1>8. /\ Ids' = (Ids \ old) \cup {lastId + 1}
      /\ lastId + 1 \notin Ids /\ lastId + 1 \in Nat
      /\ entries'[lastId + 1] = row
      /\ \A i \in Ids \ old : entries'[i] = entries[i]
  BY <1>3 DEF Ids, CInv, TInv, TypeOK
<1>9. "stored" \in Stages
  BY DEF Stages
<1>10. /\ pc' \in [Requests -> Stages]
       /\ running' \in Requests \cup {None}
       /\ StretchSound'
       /\ pc'[r] = "stored"
       /\ \A s \in Requests \ {r} : pc'[s] \notin InStretch
  BY <1>1, <1>9, MoveKeepsStretch DEF CInv, HInv
<1>11. got' \in [Requests -> Nat] /\ got'[r] = lastId + 1
  BY <1>1, <1>8 DEF CInv, HInv, TypeOKHandler
<1>12. body' \in [Requests -> Responses \cup {None}]
  BY <1>1, <1>2 DEF CInv, HInv, TypeOKHandler
<1>13. TypeOKHandler'
  BY <1>1, <1>10, <1>11, <1>12 DEF CInv, HInv, TypeOKHandler
<1>14. User(r)' = User(r)
  BY <1>1 DEF User
<1>15. GotOwn'
  BY <1>4, <1>8, <1>10, <1>11, <1>14, OwnGot
<1>16. StoredProvenance'
  <2> SUFFICES ASSUME NEW i \in Ids'
               PROVE  LET o == entries'[i].response.origin
                      IN  /\ o \in Requests
                          /\ entries'[i].user = User(o)
                          /\ entries'[i].model = Model(o)
                          /\ entries'[i].prompt = Prompt(o)
    BY <1>1 DEF StoredProvenance, User, Model, Prompt
  <2>1. CASE i = lastId + 1
    BY <2>1, <1>4, <1>8
  <2>2. CASE i \in Ids \ old
    BY <2>2, <1>8 DEF CInv, HInv, StoredProvenance
  <2> QED BY <1>8, <2>1, <2>2
<1>17. AnswerProvenance'
  BY <1>1, <1>2, BodyFits DEF CInv, HInv
<1> QED
  BY <1>6, <1>7, <1>10, <1>13, <1>15, <1>16, <1>17 DEF CInv, HInv

\* A purge comes between stretches, when nobody is about to log an entry.
LEMMA AdminPurgePreservesCInv ==
  ASSUME CInv, AdminPurge
  PROVE  CInv'
<1>1. /\ running = None
      /\ PurgeAll \/ \E id \in Ids : Purge(id)
      /\ disturbed' = TRUE
      /\ UNCHANGED <<locks, handler, crashes>>
  BY DEF AdminPurge
<1>2. Ids \subseteq Nat
  BY DEF CInv, TInv, TypeOK
<1>3. TInv'
  BY <1>1, <1>2, PurgePreservesTInv, PurgeAllPreservesTInv DEF CInv
<1>4. LInv'
  BY <1>1, StutterPreservesLInv DEF CInv
<1>5. Ids' \subseteq Ids /\ \A i \in Ids' : entries'[i] = entries[i]
  BY <1>1 DEF Purge, PurgeAll, Delete, Without, Ids
<1>6. TypeOKHandler' /\ StretchSound'
  BY <1>1 DEF handler, CInv, HInv, TypeOKHandler, StretchSound
<1>7. \A r \in Requests : pc'[r] \notin InStretch
  BY <1>1, LocksAssumption DEF handler, CInv, HInv, StretchSound
<1>8. GotOwn'
  BY <1>7 DEF GotOwn, InStretch
<1>9. StoredProvenance' /\ AnswerProvenance'
  BY <1>1, <1>5, RowsKeepProvenance, BodiesStay DEF handler, CInv, HInv
<1> QED BY <1>3, <1>4, <1>6, <1>8, <1>9 DEF CInv, HInv

\* Time may pass inside a stretch: it deletes nothing.
LEMMA ClockPreservesCInv ==
  ASSUME CInv, Clock
  PROVE  CInv'
<1>1. /\ Age
      /\ disturbed' \in BOOLEAN
      /\ UNCHANGED <<locks, handler, crashes>>
  BY DEF Clock, CInv, HInv, TypeOKHandler
<1>2. TInv' /\ LInv'
  BY <1>1, AgePreservesTInv, StutterPreservesLInv DEF CInv
<1>3. entries' = [i \in Ids |-> [entries[i] EXCEPT !.left = Aged(@)]]
  BY <1>1 DEF Age
<1>4. Ids' = Ids
  BY <1>3 DEF Ids
<1>5. \A i \in Ids : /\ entries'[i].prompt = entries[i].prompt
                     /\ entries'[i].user = entries[i].user
                     /\ entries'[i].model = entries[i].model
                     /\ entries'[i].response = entries[i].response
  BY <1>3 DEF CInv, TInv, TypeOK, Entry
<1>6. TypeOKHandler' /\ StretchSound'
  BY <1>1 DEF handler, CInv, HInv, TypeOKHandler, StretchSound
<1>7. GotOwn'
  BY <1>1, <1>4, <1>5 DEF handler, CInv, HInv, GotOwn, User
<1>8. StoredProvenance' /\ AnswerProvenance'
  BY <1>1, <1>4, <1>5, RowsKeepProvenance, BodiesStay DEF handler, CInv, HInv
<1> QED BY <1>2, <1>6, <1>7, <1>8 DEF CInv, HInv

\* A kill leaves the locks as they were when the process started, and nobody
\* in a stretch.
LEMMA CrashPreservesCInv ==
  ASSUME CInv, Crash
  PROVE  CInv'
<1>1. /\ crashes < MaxCrashes /\ crashes' = crashes + 1
      /\ pc' = [r \in Requests |->
                  IF pc[r] \in {"new", "done", "lost"} THEN pc[r] ELSE "lost"]
      /\ running' = None
      /\ disturbed' = TRUE
      /\ UNCHANGED <<tables, ask, got, body, reply>>
  BY DEF Crash
<1>2. TInv'
  BY <1>1, StutterPreservesTInv DEF CInv
<1>3. LInv'
  BY LocksAssumption
  DEF Crash, LInv, TypeOKLocks, RegistryExact, QueuesSound, HoldersSound,
      UsedLocksCreated, VariablesTogether, CreatorsNeverWait
<1>4. crashes' \in 0 .. MaxCrashes
  BY <1>1, ChatAssumption DEF CInv, HInv, TypeOKHandler
<1>5. /\ pc' \in [Requests -> Stages]
      /\ \A r \in Requests : pc'[r] \notin InStretch
  BY <1>1 DEF CInv, HInv, TypeOKHandler, Stages, InStretch
<1>6. TypeOKHandler'
  BY <1>1, <1>4, <1>5 DEF CInv, HInv, TypeOKHandler
<1>7. StretchSound' /\ GotOwn'
  BY <1>5 DEF StretchSound, GotOwn, InStretch
<1>8. StoredProvenance' /\ AnswerProvenance'
  BY <1>1, RowsKeepProvenance, BodiesStay DEF CInv, HInv, tables, Ids
<1> QED BY <1>2, <1>3, <1>6, <1>7, <1>8 DEF CInv, HInv

LEMMA StutterPreservesCInv == CInv /\ UNCHANGED vars => CInv'
<1> SUFFICES ASSUME CInv, UNCHANGED vars PROVE CInv'
  OBVIOUS
<1>1. UNCHANGED <<tables, locks, handler, crashes, disturbed>>
  BY DEF vars
<1>2. TInv' /\ LInv'
  BY <1>1, StutterPreservesTInv, StutterPreservesLInv DEF CInv
<1>3. TypeOKHandler' /\ StretchSound'
  BY <1>1 DEF handler, CInv, HInv, TypeOKHandler, StretchSound
<1>4. GotOwn'
  BY <1>1 DEF handler, tables, CInv, HInv, GotOwn, Ids, User
<1>5. StoredProvenance' /\ AnswerProvenance'
  BY <1>1, RowsKeepProvenance, BodiesStay DEF handler, tables, CInv, HInv, Ids
<1> QED BY <1>2, <1>3, <1>4, <1>5 DEF CInv, HInv

LEMMA NextPreservesCInv == CInv /\ [Next]_vars => CInv'
<1> SUFFICES ASSUME CInv, [Next]_vars PROVE CInv'
  OBVIOUS
<1>1. ASSUME NEW r \in Requests, Arrival(r) PROVE CInv'
  BY <1>1, RejectPreservesCInv, ArriveBypassPreservesCInv, ArrivePreservesCInv
  DEF Arrival
<1>2. ASSUME NEW r \in Requests, Serve(r) PROVE CInv'
  <2>1. ASSUME NEW form \in Forms, AnswerMiss(r, form) \/ AnswerBypass(r, form)
        PROVE  CInv'
    BY <2>1, AnswerMissPreservesCInv, AnswerBypassPreservesCInv
  <2>2. ASSUME NEW failure \in Failures,
               FailMiss(r, failure) \/ FailBypass(r, failure)
        PROVE  CInv'
    BY <2>2, FailMissPreservesCInv, FailBypassPreservesCInv
  <2> QED
    BY <1>2, <2>1, <2>2, AcquirePreservesCInv, RecheckPreservesCInv,
       LogMissPreservesCInv, LogHitPreservesCInv
    DEF Serve
<1>3. CASE AdminPurge \/ Clock \/ Crash
  BY <1>3, AdminPurgePreservesCInv, ClockPreservesCInv, CrashPreservesCInv
<1>4. CASE UNCHANGED vars
  BY <1>4, StutterPreservesCInv
<1> QED BY <1>1, <1>2, <1>3, <1>4 DEF Next, Quiet

-----------------------------------------------------------------------------
\* The inductive invariant holds through every interleaving of requests,
\* purges, failing upstream calls, time and kills.
THEOREM ChatInvariance == Spec => []CInv
BY InitEstablishesCInv, NextPreservesCInv, PTL DEF Spec

\* No request is ever answered with another user's or another model's
\* response, or with one that neither its prompt nor the veto allows.
THEOREM AnswersKeepProvenance == Spec => []AnswerProvenance
<1>1. CInv => AnswerProvenance
  BY DEF CInv, HInv
<1> QED BY <1>1, ChatInvariance, PTL

\* The entry a HIT or MISS row is about to refer to has not been deleted.
THEOREM LogReferencesAreValid == Spec => []LogReferenceValid
<1>1. CInv => LogReferenceValid
  BY DEF CInv, HInv, GotOwn, LogReferenceValid
<1> QED BY <1>1, ChatInvariance, PTL

\* Under the handler the tables keep what they promise on their own: no log
\* row refers to a deleted entry or to another user's, keys stay unique.
THEOREM ChatKeepsTables == Spec => [](ReferencesLive /\ ReferencesOwn /\ UniqueKey)
<1>1. CInv => ReferencesLive /\ ReferencesOwn /\ UniqueKey
  BY DEF CInv, TInv
<1> QED BY <1>1, ChatInvariance, PTL

\* Under the handler the registry of the stampede locks holds exactly the
\* locks that are in use, and their queues are sound; a kill included.
THEOREM ChatKeepsLocks == Spec => [](RegistryExact /\ QueuesSound)
<1>1. CInv => RegistryExact /\ QueuesSound
  BY DEF CInv, LInv
<1> QED BY <1>1, ChatInvariance, PTL

=============================================================================
