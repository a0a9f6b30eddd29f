----------------------------- MODULE ChatProxy -----------------------------
(***************************************************************************)
(* The chat_completions handler of routes/chat.py: concurrent requests     *)
(* over the cache tables and the stampede locks, an upstream that may      *)
(* fail, an administrator who purges, and a process that may be killed.    *)
(*                                                                         *)
(* One event loop: a coroutine keeps running until it awaits a lock or the *)
(* upstream.  "running" names the coroutine inside such a stretch; only    *)
(* the clock and a kill can fall between its steps, and its steps are cut  *)
(* where the database commits, so that a kill finds what was committed.    *)
(*                                                                         *)
(* An answer is named after the request whose upstream call produced it.   *)
(***************************************************************************)
EXTENDS CacheTables, InflightLocks

CONSTANTS
  Asks,       \* what requests may ask for
  Forms,      \* what upstream answers may look like: see AllForms
  Failures,   \* how upstream calls may fail: see AllFailures
  MaxCrashes  \* bound: times the process is killed

\* "valid"      a chat completion
\* "invalid"    a JSON object that ChatCompletionResponse refuses: the client
\*              gets a 500, after the handler has returned and logged
\* "malformed"  JSON the handler itself trips over, such as a list
AllForms == {"valid", "invalid", "malformed"}

\* "failed"   an httpx error, or CircuitOpenError
\* "garbled"  a 2xx answer that is no JSON: resp.json() raises ValueError
AllFailures == {"failed", "garbled"}

ASSUME ChatAssumption ==
  /\ Asks \subseteq [prompt : Prompts, user : Users, model : Models,
                     bypass : BOOLEAN]
  /\ Forms \subseteq AllForms
  /\ Failures \subseteq AllFailures
  /\ Responses = [origin : Requests, form : Forms]
  /\ None \notin Responses
  /\ Keys = Prompts \X Models
  /\ MaxCrashes \in Nat

VARIABLES
  ask,        \* Requests -> what each asks for
  pc,         \* Requests -> where its coroutine is: see Stages
  running,    \* the coroutine that has not yet reached an await, or None
  got,        \* Requests -> the entry id it was served from or has stored
  body,       \* Requests -> the response it holds, or None
  reply,      \* Requests -> how it ended: see Replies
  crashes,    \* times the process was killed
  disturbed   \* history: an upstream call has failed, or an entry was lost
              \* to a purge or to time

handler == <<ask, pc, running, got, body, reply>>
vars == <<tables, locks, handler, crashes, disturbed>>

\* "waiting", "forwarding" and "bypassing" await; "locked", "serving" and
\* "stored" are points of a stretch
Stages == {"new", "waiting", "locked", "forwarding", "serving", "stored",
           "bypassing", "done", "lost"}

\* what the handler returns: a logged outcome; "4xx", refused before any work;
\* "500", an exception that escaped it; "none", nothing
Replies == Outcomes \cup {"4xx", "500", "none"}

Prompt(r) == ask[r].prompt
User(r) == ask[r].user
Model(r) == ask[r].model
Key(r) == <<Prompt(r), Model(r)>>

\* The handler fails on a malformed response before it has logged anything.
Loggable(response) == response.form # "malformed"
Outcome(o, response) == IF Loggable(response) THEN o ELSE "500"

\* The types; and what a handler is about to return, it has.
TypeOKChat ==
  /\ TypeOK
  /\ TypeOKLocks
  /\ ask \in [Requests -> Asks]
  /\ pc \in [Requests -> Stages]
  /\ running \in Requests \cup {None}
  /\ got \in [Requests -> Nat]
  /\ body \in [Requests -> Responses \cup {None}]
  /\ \A r \in Requests : pc[r] \in {"serving", "stored"} => body[r] # None
  /\ reply \in [Requests -> Replies]
  /\ crashes \in 0 .. MaxCrashes
  /\ disturbed \in BOOLEAN

-----------------------------------------------------------------------------
Init ==
  /\ InitTables
  /\ InitLocks
  /\ ask \in [Requests -> Asks]
  /\ pc = [r \in Requests |-> "new"]
  /\ running = None
  /\ got = [r \in Requests |-> NoEntry]
  /\ body = [r \in Requests |-> None]
  /\ reply = [r \in Requests |-> "none"]
  /\ crashes = 0
  /\ disturbed = FALSE

\* r stops at an await, or goes on; it ends with a reply.
Await(r, stage) == /\ pc' = [pc EXCEPT ![r] = stage]
                   /\ running' = None
GoOn(r, stage) == /\ pc' = [pc EXCEPT ![r] = stage]
                  /\ running' = r
Finish(r, outcome) == /\ Await(r, "done")
                      /\ reply' = [reply EXCEPT ![r] = outcome]

\* r holds the entry a lookup has served.
Take(i, r) == /\ got' = [got EXCEPT ![r] = i]
              /\ body' = [body EXCEPT ![r] = entries[i].response]

TheHit(r) == Hit(Prompt(r), User(r), Model(r))

-----------------------------------------------------------------------------
\* A provider off the allowlist (400) or no caller key (401).
Reject(r) ==
  /\ running = None /\ pc[r] = "new"
  /\ Finish(r, "4xx")
  /\ UNCHANGED <<tables, locks, ask, got, body, crashes, disturbed>>

ArriveBypass(r) ==
  /\ running = None /\ pc[r] = "new" /\ ask[r].bypass
  /\ Await(r, "bypassing")
  /\ UNCHANGED <<tables, locks, ask, got, body, reply, crashes, disturbed>>

\* The first lookup, and on a miss the way to the lock.
Arrive(r) ==
  /\ running = None /\ pc[r] = "new" /\ ~ask[r].bypass
  /\ Lookup(Prompt(r), User(r), Model(r))
  /\ \/ \E i \in TheHit(r) : Take(i, r) /\ GoOn(r, "serving")
        /\ UNCHANGED locks
     \/ /\ TheHit(r) = {}
        /\ Enter(r, Key(r))
        /\ IF holder'[lockOf'[r]] = r THEN GoOn(r, "locked")
                                      ELSE Await(r, "waiting")
        /\ UNCHANGED <<got, body>>
  /\ UNCHANGED <<ask, reply, crashes, disturbed>>

Acquire(r) ==
  /\ running = None /\ pc[r] = "waiting"
  /\ Resume(r)
  /\ GoOn(r, "locked")
  /\ UNCHANGED <<tables, ask, got, body, reply, crashes, disturbed>>

\* Fault: a request that got the lock goes straight to the upstream.
RecheckSkipped(r) ==
  /\ running = r /\ pc[r] = "locked"
  /\ Await(r, "forwarding")
  /\ UNCHANGED <<tables, locks, ask, got, body, reply, crashes, disturbed>>

\* Fault: what the second lookup finds is not assigned to "cached".
RecheckUnassigned(r) ==
  /\ running = r /\ pc[r] = "locked"
  /\ Lookup(Prompt(r), User(r), Model(r))
  /\ IF TheHit(r) # {} THEN GoOn(r, "serving") /\ Leave(r)
                       ELSE Await(r, "forwarding") /\ UNCHANGED locks
  /\ UNCHANGED <<ask, got, body, reply, crashes, disturbed>>

\* The lookup under the lock.  A hit leaves the lock before it is logged.
Recheck(r) ==
  /\ running = r /\ pc[r] = "locked"
  /\ Lookup(Prompt(r), User(r), Model(r))
  /\ \/ \E i \in TheHit(r) : Take(i, r) /\ GoOn(r, "serving")
        /\ Leave(r)
     \/ /\ TheHit(r) = {}
        /\ Await(r, "forwarding")
        /\ UNCHANGED <<locks, got, body>>
  /\ UNCHANGED <<ask, reply, crashes, disturbed>>

\* An answer is stored as it came.
AnswerMiss(r, form) ==
  LET response == [origin |-> r, form |-> form]
  IN  /\ running = None /\ pc[r] = "forwarding"
      /\ Store(Prompt(r), User(r), Model(r), response)
      /\ got' = [got EXCEPT ![r] = lastId + 1]
      /\ body' = [body EXCEPT ![r] = response]
      /\ GoOn(r, "stored")
      /\ UNCHANGED <<locks, ask, reply, crashes, disturbed>>

\* Fault: the lock is released on the ways out the handler knows of only.
FailMissKeepingLock(r, failure) ==
  /\ running = None /\ pc[r] = "forwarding"
  /\ \/ /\ failure = "failed"
        /\ LogRequest("ERROR", User(r), NoEntry)
        /\ Leave(r)
        /\ Finish(r, "ERROR")
     \/ /\ failure = "garbled"
        /\ Finish(r, "500")
        /\ UNCHANGED <<tables, locks>>
  /\ disturbed' = TRUE
  /\ UNCHANGED <<ask, got, body, crashes>>

\* Fault: a failed call is answered and not logged.
FailMissUnlogged(r, failure) ==
  /\ running = None /\ pc[r] = "forwarding"
  /\ Leave(r)
  /\ Finish(r, IF failure = "failed" THEN "ERROR" ELSE "500")
  /\ disturbed' = TRUE
  /\ UNCHANGED <<tables, ask, got, body, crashes>>

\* The upstream call fails: an ERROR row, except for an exception that the
\* handler does not catch.
FailMiss(r, failure) ==
  /\ running = None /\ pc[r] = "forwarding"
  /\ Leave(r)
  /\ \/ /\ failure = "failed"
        /\ LogRequest("ERROR", User(r), NoEntry)
        /\ Finish(r, "ERROR")
     \/ /\ failure = "garbled"
        /\ Finish(r, "500")
        /\ UNCHANGED tables
  /\ disturbed' = TRUE
  /\ UNCHANGED <<ask, got, body, crashes>>

\* The MISS row refers to the entry just stored.
LogMiss(r) ==
  /\ running = r /\ pc[r] = "stored"
  /\ IF Loggable(body[r]) THEN LogRequest("MISS", User(r), got[r])
                          ELSE UNCHANGED tables
  /\ Leave(r)
  /\ Finish(r, Outcome("MISS", body[r]))
  /\ UNCHANGED <<ask, got, body, crashes, disturbed>>

\* Fault: the row does not say which entry was served.
LogHitUnmatched(r) ==
  /\ running = r /\ pc[r] = "serving"
  /\ IF Loggable(body[r]) THEN LogRequest("HIT", User(r), NoEntry)
                          ELSE UNCHANGED tables
  /\ Finish(r, Outcome("HIT", body[r]))
  /\ UNCHANGED <<locks, ask, got, body, crashes, disturbed>>

LogHit(r) ==
  /\ running = r /\ pc[r] = "serving"
  /\ IF Loggable(body[r]) THEN LogRequest("HIT", User(r), got[r])
                          ELSE UNCHANGED tables
  /\ Finish(r, Outcome("HIT", body[r]))
  /\ UNCHANGED <<locks, ask, got, body, crashes, disturbed>>

\* The bypass path never touches the cache.
AnswerBypass(r, form) ==
  LET response == [origin |-> r, form |-> form]
  IN  /\ running = None /\ pc[r] = "bypassing"
      /\ IF Loggable(response) THEN LogRequest("BYPASS", User(r), NoEntry)
                               ELSE UNCHANGED tables
      /\ body' = [body EXCEPT ![r] = response]
      /\ Finish(r, Outcome("BYPASS", response))
      /\ UNCHANGED <<locks, ask, got, crashes, disturbed>>

FailBypass(r, failure) ==
  /\ running = None /\ pc[r] = "bypassing"
  /\ \/ /\ failure = "failed"
        /\ LogRequest("ERROR", User(r), NoEntry)
        /\ Finish(r, "ERROR")
     \/ /\ failure = "garbled"
        /\ Finish(r, "500")
        /\ UNCHANGED tables
  /\ UNCHANGED <<locks, ask, got, body, crashes, disturbed>>

-----------------------------------------------------------------------------
\* Fault: the route runs in a thread of its own, beside the event loop.
AdminPurgeInThread ==
  /\ PurgeAll \/ \E id \in Ids : Purge(id)
  /\ disturbed' = TRUE
  /\ UNCHANGED <<locks, handler, crashes>>

\* POST /cache/purge, an async route.
AdminPurge ==
  /\ running = None
  /\ PurgeAll \/ \E id \in Ids : Purge(id)
  /\ disturbed' = TRUE
  /\ UNCHANGED <<locks, handler, crashes>>

Clock ==
  /\ Age
  /\ disturbed' = (disturbed \/ \E i \in Ids : entries[i].left = 0)
  /\ UNCHANGED <<locks, handler, crashes>>

\* The process is killed and started again: what was committed is there, the
\* coroutines and the locks are gone.
Crash ==
  /\ crashes < MaxCrashes
  /\ crashes' = crashes + 1
  /\ pc' = [r \in Requests |->
              IF pc[r] \in {"new", "done", "lost"} THEN pc[r] ELSE "lost"]
  /\ running' = None
  /\ registry' = [k \in Keys |-> None]
  /\ lockOf' = [r \in Requests |-> None]
  /\ keyOf' = [r \in Requests |-> None]
  /\ holder' = [l \in Requests |-> None]
  /\ waiters' = [l \in Requests |-> <<>>]
  /\ disturbed' = TRUE
  /\ UNCHANGED <<tables, ask, got, body, reply>>

-----------------------------------------------------------------------------
Arrival(r) == Reject(r) \/ ArriveBypass(r) \/ Arrive(r)

\* What the event loop and the upstream do for a request once it is there.
Serve(r) ==
  \/ Acquire(r) \/ Recheck(r) \/ LogMiss(r) \/ LogHit(r)
  \/ \E form \in Forms : AnswerMiss(r, form) \/ AnswerBypass(r, form)
  \/ \E failure \in Failures : FailMiss(r, failure) \/ FailBypass(r, failure)

\* Nothing is left to do.
Quiet ==
  /\ \A r \in Requests : pc[r] \in {"done", "lost"}
  /\ UNCHANGED vars

Next ==
  \/ \E r \in Requests : Arrival(r) \/ Serve(r)
  \/ AdminPurge
  \/ Clock
  \/ Crash
  \/ Quiet

\* The loop resumes every coroutine that can go on, and every upstream call
\* ends (UpstreamForward.tla: CallsEnd).  Clients need not call at all.
Fairness == \A r \in Requests : WF_vars(Serve(r))

Spec == Init /\ [][Next]_vars /\ Fairness

-----------------------------------------------------------------------------
(* Properties.                                                             *)

\* "responses are NEVER shared across users": whatever response a request
\* holds or was answered with comes from an upstream call of the same user
\* for the same model, and for the same prompt or one close enough and not
\* vetoed; through stores, replacements, purges, expiry and crashes.
AnswerProvenance ==
  \A r \in Requests : body[r] # None =>
    LET o == body[r].origin
    IN  /\ User(o) = User(r) /\ Model(o) = Model(r)
        /\ \/ Prompt(o) = Prompt(r)
           \/ /\ Similarity(Prompt(r), Prompt(o)) >= Threshold
              /\ <<Prompt(r), Prompt(o)>> \notin Vetoed

\* The entry a request has been served from or has stored is still there when
\* it writes its log row: the foreign key never turns an answer that was found
\* or paid for into an error (lookup/store ... log_request without an await).
LogReferenceValid ==
  \A r \in Requests : pc[r] \in {"serving", "stored"} => got[r] \in Ids

HitRows(i) ==
  {n \in DOMAIN log : log[n].outcome = "HIT" /\ log[n].matched = i}

\* Requests served from entry i whose HIT row is not written: not yet, or
\* never, because of a kill or of a malformed response.
UnloggedHits(i) ==
  {r \in Requests : /\ got[r] = i
                    /\ body[r].origin # r
                    /\ pc[r] \in {"serving", "lost"} \/ ~Loggable(body[r])}

\* An entry's hit_count is the number of HIT rows that refer to it, plus the
\* hits that were counted but not logged.
HitCountMatchesLog ==
  \A i \in Ids :
    entries[i].hits = Cardinality(HitRows(i)) + Cardinality(UnloggedHits(i))

\* Every request that returned with an outcome has its log row, of its user,
\* and every log row its request: nothing is logged twice, and no answer with
\* an outcome is missing from the metrics.  An exception that escapes the
\* handler answers 500 and leaves no row.
LogMatchesReplies ==
  \A o \in Outcomes, u \in Users :
    Cardinality({n \in DOMAIN log : log[n].outcome = o /\ log[n].user = u})
      = Cardinality({r \in Requests : reply[r] = o /\ User(r) = u})

\* _inflight_locks against the requests themselves: only requests on their way
\* to or from the upstream hold a lock, and a kill leaves none behind.
LocksMatchStages ==
  \A r \in Requests :
    /\ Holding(r) <=> pc[r] \in {"locked", "forwarding", "stored"}
    /\ pc[r] = "waiting" =>
         \E i \in DOMAIN waiters[lockOf[r]] : waiters[lockOf[r]][i] = r

\* Whatever a request waits for will be handed to it: the lock is held by a
\* request that is on its way to or from the upstream with that very lock, or
\* it is free, and the first of its queue, which is to take it, still waits for
\* it.  No lock stays with a request that has returned, failed or been lost,
\* and no two requests wait for each other (async with lock ... finally).
NobodyStranded ==
  \A r \in Requests : pc[r] = "waiting" =>
    LET l == lockOf[r]
    IN  \/ /\ holder[l] # None
           /\ lockOf[holder[l]] = l
           /\ pc[holder[l]] \in {"locked", "forwarding", "stored"}
        \/ /\ holder[l] = None /\ waiters[l] # <<>>
           /\ lockOf[Head(waiters[l])] = l
           /\ pc[Head(waiters[l])] = "waiting"

\* The requests that have paid for an upstream call to fill the cache.
Paid(r) ==
  \/ pc[r] \in {"forwarding", "stored"}
  \/ pc[r] = "done" /\ body[r] # None /\ body[r].origin = r

Twins(r, s) == ask[r] = ask[s] /\ ~ask[r].bypass

\* "coalesce concurrent identical requests before paying for an upstream
\* call": of identical requests at most one goes upstream, unless a call has
\* failed or an entry was lost, or another user asks the same (the locks do
\* not tell users apart, the cache does).
StampedeCoalesced ==
  \/ disturbed
  \/ \A r, s \in Requests :
       Twins(r, s) /\ Paid(r) /\ Paid(s) /\ r # s =>
         \E t \in Requests : Key(t) = Key(r) /\ User(t) # User(r)

\* The comment on _inflight_locks: "at most one in-flight upstream call per
\* exact (prompt, model) hash".
OneUpstreamCallPerKey ==
  \A r, s \in Requests :
    pc[r] = "forwarding" /\ pc[s] = "forwarding" /\ Key(r) = Key(s) => r = s

\* README.md, on failed upstream calls: they never enter the cache.
OnlyCompletionsCached == \A i \in Ids : entries[i].response.form = "valid"

\* Every request that has come in is answered, unless the process is killed:
\* no queue of the stampede locks is left without a holder to hand it on.
RequestsEnd ==
  \A r \in Requests : pc[r] # "new" ~> pc[r] \in {"done", "lost"}

=============================================================================
