# Formal models of the semantic cache proxy

TLA+ models of the proxy in `src/proxy`, checked with TLC and, for the parts
where it pays, proved with TLAPS. `PROJECT.json` is the index: it maps each
definition to the lines of the source it models, and lists the runs, the
mutants that show each property can fail, the hazards and the theorems.

## The system

One asyncio process (FastAPI, every route `async def`) serves an
OpenAI-shaped endpoint. A request is answered from a SQLite cache, by exact
match or by similarity, or is forwarded to an upstream LLM and stored.

| Component | State | Operations | What makes it correct |
|---|---|---|---|
| Cache tables (`cache.py`, `database.py`) | `cache_entries`, `request_log`, `purge_audit` | `lookup` (exact, then semantic), `store`, `purge`, `log_request` | no answer crosses users or models; one row per prompt, user and model; log references are live; no silent loss |
| Semantic scan (`cache.py`, `embedding.py`) | the loop's running best | compare row by row, threshold, veto of the best | what is served is the nearest sound row of the whole table, at or above the threshold, and not vetoed |
| Semantic veto (`text.py`, `cache.py`) | none | tokens, entities, numbers, negation, antonyms, typo bridge; six tests | one verdict per pair of texts, in either direction and in every process; a continuation by further tokens is no contradiction, a new negation or a second number apart |
| Chat handler (`routes/chat.py`) | the coroutines' locals | bypass, hit, miss, error paths | every reply has its log row, every hit is counted, every request ends |
| Stampede locks (`routes/chat.py`) | `_inflight_locks` and asyncio locks | register, wait, hold, drop | the dict drains; nobody is left waiting; identical requests share one call |
| Upstream forwarding (`llm_client.py`) | one loop per call | post, backoff, Retry-After, give up | bounded attempts and sleeps; one report per call |
| Circuit breaker (`llm_client.py`) | `_consecutive_failures`, `_opened_at`, `_probe_in_flight`, per upstream | `allow`, `record_success`, `record_failure` | opens after enough failures in a row, probes once, recovers |
| Retention and metrics (`cache.py`) | `daily_metrics` | `prune_old_logs`, `get_metrics` | lifetime totals do not regress |
| Schema, migration, seeding (`database.py`) | all tables | `init_db`, `seed_test_pairs` | idempotent; no row lost, also across a kill |
| Evaluation (`eval.py`) | reads `labeled_test_pairs` | sweep, auto-tune | the pick is the best F1, ties to the lower threshold; every pair that hangs on it is reported |
| Pricing, token estimate, mock, identity, configuration, admin gate, dashboard, scripts | none, or configuration | pure functions, pages | out of scope or small; see below |

How they interact: the handler calls `lookup`, `store` and `log_request` and
awaits only two things, a lock and `forward_to_llm`. `forward_to_llm` asks the
breaker of its upstream once, awaits posts and sleeps, and reports the end of
the call to the breaker. An administrator purges through a route of the same
loop. Everything in memory (locks, breakers) dies with the process; the tables
stay.

What is hard: the order in which overlapping calls report to a breaker; a lock
registry whose entry is removed while others wait on the lock; answers that
arrive after a purge; the points between two database commits where a kill
leaves a count without a row; references from the log to entries that expire,
are replaced or purged; the boundary second of an expiry. `PROJECT.json` lists
each at its line, with the properties that cover it or the reason none does.

## Modules

| Module | Models | Notes |
|---|---|---|
| `CircuitBreaker` | class `CircuitBreaker` and the calls through it | the abstract view of one upstream |
| `UpstreamForward` | `_post_with_retries`, `forward_to_llm` | implements `CircuitBreaker` once per upstream (`B(u) == INSTANCE CircuitBreaker WITH ...`) |
| `CacheTables` | the tables and the functions that write them | can run alone; parameterised by similarity and veto |
| `InflightLocks` | `_inflight_locks`, `asyncio.Lock` | can run alone; the lock itself is external |
| `ChatProxy` | the handler; composes `CacheTables` and `InflightLocks` | the upstream is abstract: an answer or a failure |
| `Retention` | `log_request`, `prune_old_logs`, `get_metrics` | the log and its rollup per day |
| `Startup` | the lifespan: `init_db` with its migration, `seed_test_pairs`, the retention pass, then requests | extends `Retention`; a kill between any two statements |
| `AnswerCache` | what callers are promised | abstract: no tables, tiers, locks or event loop |
| `ChatRefinement` | the mapping under which `ChatProxy` implements `AnswerCache` | extends `ChatProxy` |
| `SemanticVeto` | `text.py` and `semantic_veto` | operators over texts; no state |
| `SemanticLookup` | the loop of `_semantic_lookup` | extends `SemanticVeto`; compared with `CacheTables` (`Tables(th, o) == INSTANCE ...`) |
| `ThresholdTune` | `run_threshold_sweep`, `run_auto_tune` | one step per threshold |
| `Calibration` | lookups, auto-tune and the restart that adopts its threshold | extends `SemanticLookup` and `ThresholdTune` |
| `MCCacheTables`, `MCChatProxy`, `MCStartup`, `MCCalibration` | values of the constants for TLC | |
| `CircuitBreakerProofs`, `UpstreamForwardProofs`, `InflightLocksProofs`, `CacheTablesProofs`, `ChatProxyProofs`, `ChatRefinementProofs`, `CalibrationProofs`, `StartupProofs` | theorems and proofs | the last two of the chat handler's build on those of its parts |

How state and steps correspond to the code:

* **CircuitBreaker.** `breaker` is the object. Its only use of the clock is
  `monotonic() - _opened_at >= reset_seconds`, so the model keeps what is left
  of the cooldown and `Tick` is one second. `Admit` and `Refuse` are `allow`;
  `Succeed`, `Fail` and `Reject` are the three ways out of `forward_to_llm`:
  `record_success`, `record_failure`, and the exceptions that report nothing.
  `history` is not in the code: it records what the calls did (probes out,
  stragglers, failures in a row, a probe that ended unreported), so that the
  properties compare the breaker with the calls and not with itself.
* **UpstreamForward.** A call is its coroutine: posting, or sleeping before
  the next attempt. Each step runs from one await to the next. A Retry-After
  longer than the budget ends the call at once and still counts as a failure,
  as in the code. A malformed header is no header.
* **CacheTables.** Prompts are model values; `Score` and `Vetoed` are
  constants, since the code computes the cosine and the veto from the two texts
  alone, and so every result holds for any embedding and any veto. An entry
  holds what is left of its time to live: 0 is `now = expires_at`, where the
  exact tier still serves and the semantic scan no longer does. `Lookup` is the
  whole function: it deletes an expired row of the same key, may then hit
  another entry semantically, and counts the hit.
* **InflightLocks.** A lock is named after the request whose `setdefault`
  created it. `Enter` is `setdefault` and `acquire` up to where it suspends,
  `Resume` the loop handing a free lock to its first waiter, `Leave` the end of
  `async with` and the `finally` block.
* **ChatProxy.** `pc` is where a request's coroutine is. Between two awaits
  only a kill and the clock may come in, so `running` names the coroutine that
  is inside such a stretch, and stretches are cut at database commits only. A
  request's answer is named after the request whose upstream call produced it,
  which is what `AnswerProvenance` compares.
* **ChatRefinement.** A request is pending until it holds an answer, holding
  from there to its log row, and then answered or failed. What is known is the
  origins of the entries that have not expired; what fits is decided by user,
  model, prompt, similarity and veto. A lookup that hits is `Reuse`, a store is
  `Obtain`, purge, expiry and replacement are `Forget`. Steps that only touch
  locks, the log or expired rows are stuttering.
* **SemanticVeto.** A text is the sequence of what the patterns of `text.py`
  see in it: tokens with the form they were written in, bracketed tags, the
  marks that end a sentence, and apostrophes that no token follows. The patterns
  cut differently at an apostrophe: "France's" is two tokens for `\w+`, of which
  the second is attached to the first, and one for the pattern of entities
  (`[A-Za-z][\w']*`, `Token`), which also takes a closing quote along, so that
  neither "France's" nor "France'" is the entity "France". "don't" is attached
  as a contraction, which is what `"n't" in low` finds. A Jaccard index is
  compared with its bound by cross multiplication. `Close` is difflib's verdict
  on two words and need not be symmetric; `order` is the order in which this
  process unpacks the antonym pairs. The other characters on which the patterns
  `\w+`, `[a-z]+` and `[A-Za-z][\w']*` differ are left out: the underscore,
  digits inside words, and letters outside ASCII.
* **SemanticLookup.** `Continues` is what the properties call a continuation: one
  text begins with the tokens of the other, and what it adds begins a token of
  its own. Without that boundary `ContinuationSpared` would be false: "... of
  France" is refused for "... of France's history". One step per row. `next`, `best_score` and `best_entry`
  are the loop's locals, `rows` what the query fetched, `sound` what
  `_deserialize_embedding` finds out about a blob. A kill inside the loop loses
  its locals only and is not a step of its own.
* **ThresholdTune.** `results` grows by one threshold per step. F1 is a fraction
  of counts, rounded as in the code; the response's list of borderline pairs is
  a set, its order being how it is shown.
* **Calibration.** Neither handler awaits, so one is done before another starts.
  `get_settings` caches: a new threshold, and a new hash seed, come with a
  restart.
* **Retention.** Time is counted in ticks of which `PerDay` make a day, costs in
  steps below the sixth decimal to which the rollup rounds. `Prune` is the one
  transaction of `prune_old_logs`. `ever` and `roundings` are history: every row
  that was logged, and how often a day's cost was rounded.
* **Startup.** `executescript` and DDL commit statement by statement, so each
  statement that changes the file is a step and `step` names the next one. A
  table has one of four shapes (absent, before user scoping, before its CHECK
  knew ERROR, current), and an absent one holds no rows. Entries are named in
  the order in which they were stored, so that an entry under another id is
  seen to be the same; indexes and the tables that no migration touches are
  left out. `CREATE TABLE` of a copy that is there already raises: the step
  becomes `failed`, the process ends and may be started again.

## Runs

| Run | Module | Result | Distinct states |
|---|---|---|---|
| `circuit_breaker` | `CircuitBreaker` | passes | 157 |
| `upstream_forward` | `UpstreamForward` | passes | 134 thousand |
| `cache_tables` | `MCCacheTables` | passes | 250 thousand |
| `chat_proxy` | `MCChatProxy` | passes | 1.8 million |
| `chat_live` | `MCChatProxy` | passes | 144 thousand |
| `startup` | `MCStartup` | passes | 928 thousand |
| `calibration` | `MCCalibration` | passes | 333 thousand |
| `breaker_wedged` | `CircuitBreaker` | counterexample | |
| `forward_sleep` | `UpstreamForward` | counterexample | |
| `chat_stampede` | `MCChatProxy` | counterexample | |
| `chat_failure_cached` | `MCChatProxy` | counterexample | |
| `startup_again` | `MCStartup` | counterexample | |

Bounds, and why they are enough for what the properties ask:

* `circuit_breaker`: three calls (a probe, a straggler and one more), a
  threshold of two so that a partial count exists, a cooldown of two seconds so
  that an elapsed and a running one differ.
* `upstream_forward`: two upstreams and two calls, so that one fails while the
  other goes on; three attempts; a Retry-After at and beyond the cap; backoff
  smaller than Retry-After.
* `cache_tables`: three prompts in a row of similarity with ties and one vetoed
  pair; two users, two models; two entries over a run, one hit per entry, two
  log rows, one purge. Two entries suffice for a replacement, a tie and a
  reference to the wrong row; ids beyond are checked by the proofs.
* `chat_proxy`: three requests (holder, waiter, newcomer), two users with one
  prompt, two prompts that match one way, a bypass, all forms of answers and
  failures, one purge, one kill, a time to live of one second. `chat_live` and
  the two counterexample runs use two asks that share one lock key.
* `startup`: five databases to start from (no file, the three earlier shapes,
  today's), with up to two entries of which the first may be missing, so that
  the copy gives the other a new id; two kills, hence three starts, so that a
  migration can be killed, killed again while it is taken up, and completed;
  two ticks to a day and a window of one, so that one day is rolled up in two
  passes; hits that save less than half a sixth decimal.
* `calibration`: twenty texts, at least two for each signal, one with no words,
  one that is the beginning of others, continuations with an entity, a negation,
  a number and a possessive, a name with a closing quote, a typo, a contraction,
  a number word; two
  antonym pairs that share a word, hence four hash orders; tables of one row
  over all texts and of two over the longer ones, each row sound or not; three
  scores and three thresholds, so that rows tie, and lie at and on both sides of
  the threshold. Up to three labeled pairs and grids of up to two thresholds,
  repeated, unsorted or empty; a band of one step, a report of two pairs, so
  that it can be cut off. A tie or a skipped row needs two rows; what a third
  would add is a repetition of the loop's step.
* Symmetry: users and models in `cache_tables`, requests in `chat_proxy`. No
  liveness property is checked under symmetry.

Fairness: the breaker's and the forwarding specifications assume that time
passes and that every post ends (the shared client has a 120 s timeout on
connects, reads and writes; a body that trickles for ever is excluded), and the
event loop resumes a coroutine that can go on. `ChatProxy` assumes the same of
each request that has come in, and takes from `UpstreamForward` (`CallsEnd`)
that upstream calls end. Nothing is assumed of clients, administrators or
kills. A released `asyncio.Lock` is handed to its first waiter.

### What the counterexamples show

* `breaker_wedged`: a HALF_OPEN probe that gets, say, a 401 is raised without a
  report. `_probe_in_flight` stays up, `allow` answers False ever after, and as
  no call is admitted none can report. `WedgedForGood` proves the permanence;
  `OpenCircuitAdmitsUnlessAbandoned` shows it is the only way not to recover.
* `forward_sleep`: the docstring of `forward_to_llm` bounds a lock holder's
  sleep by attempts times the backoff cap, but Retry-After may be longer.
  `SleepBounded` is the bound that does hold.
* `chat_stampede`: the comment on `_inflight_locks` promises one upstream call
  per key. After a failed holder two requests can be upstream at once.
  `StampedeCoalesced` is what does hold: without a failure or a loss, identical
  requests share one call. Moreover `docs/design.md:155` gives the lock key a
  user id it does not have.
* `chat_failure_cached`: a 2xx body is stored before the response model sees
  it, so a body it refuses is cached and every repeat is a 500.
* `startup_again`: a kill inside a rebuild leaves the copy behind, and every
  later start fails at its `CREATE TABLE` until someone drops the copy by hand,
  where the docstring of `init_db` says "idempotent". The failing starts
  happen as long as the old table is there; a kill between DROP and RENAME is
  worse, since the next start makes an empty table and serves from it, with the
  rows still in the copy. `LifetimeTotals` and `EntriesKept` count the rows that
  were left in a copy, and so say that nothing else is lost.

Also met while modelling, and left as the code has it: the docstring of
`CircuitBreaker` (`llm_client.py:130`), `config.py:44` and `README.md:227` speak
of failures that exhausted their retries, but an upstream that asks for a longer
wait than a call will sleep fails it at the first attempt, and the breaker
counts that as well (`PostGivesUp`); the docstring of `semantic_veto` says that
"single-side absence can never veto", but the negation signal compares the two
texts for inequality (`cache.py:113`), so "... of France" is refused for "... of
France not" (`ContinuationSpared` is that sentence with this exception); the
first word of a message whose predecessor does not end in `.!?` counts as an
entity (`text.py:183`); a possessive or a closing quote makes another entity of a name
(`text.py:184`), so texts about one country are refused for each other; two
probes may overlap after a straggler's failure (the class docstring concedes
it); a 2xx answer that is no JSON raises out of the handler: the client gets a
500 and no ERROR row is written, though `README.md:235` says that failed calls
are logged (`LogMatchesReplies` speaks of replies with an outcome only); a purge
while a call is upstream does not stop its answer from being stored afterwards;
the migration copies entries without their ids, so that after a purge the log
of an old database names other entries than it did (`ReferencesMeant` excepts
it, `database.py:137-142`); rounding each day's cost lets the lifetime cost fall
by up to half a sixth decimal per pass and day (`CostWithinRounding`).

## Proofs

`tlapm` checks every theorem to its leaves. They hold for all values of the
constants that meet the named assumptions.

* **CircuitBreakerProofs** (assuming `BreakerAssumption`): `IInv` adds to the
  invariants that the breaker's count agrees with the history while the circuit
  is closed and that a closed circuit knows no probes (`ClosedIsClean`), and
  that the flag is up while a probe is out (`ProbeRaisesFlag`). Without these
  `OpenIffTripped` and `SingleProbeUnlessStraggled` are not inductive: a state
  with a probe out and the flag down would admit a second. `WedgeIsPermanent`
  is an action property on top of `IInv`.
* **UpstreamForwardProofs** (assuming `ForwardAssumption`): first, that a step
  of any call is, for each upstream, a step of its breaker or none
  (`NextIsBreakerStep`); then `FInv`, which is what `CircuitBreakerProofs` finds
  invariant of a breaker, for every upstream at once, and what a call knows of
  its attempts. `SleepBounded` is not inductive: `Counted` ties what a call has
  slept to the attempt it is in, so that the last attempt is never followed by a
  sleep. The mapping of `BreakersImplemented` is the identity on breaker and
  history, and a call is out for `u` while it posts or sleeps; backoffs and
  Retry-After sleeps stutter, and every other step is one of the breaker's.
* **InflightLocksProofs** (assuming `LocksAssumption`): `RegistryExact` and
  `QueuesSound` (stated with the proofs: nobody queues twice, or for a lock of
  another key, or for one it holds) need to know that a lock is in use only once its creator has
  come in (`UsedLocksCreated`) and that a creator never waits for its own lock
  (`CreatorsNeverWait`); otherwise the name of a newcomer's lock could already
  be taken.
* **CacheTablesProofs** (assuming `TablesAssumption`): `TInv` is the
  conjunction of `TypeOK`, `ReferencesLive`, `ReferencesOwn` and `UniqueKey`.
  Type correctness carries that ids lie in `1 .. lastId`, without which a store
  could reuse an id and old references would name a new row. `LookupSound`
  follows from `UniqueKey` (the exact tier finds one row) and from the order of
  candidates being asymmetric (the scan finds one). `PurgedForGood` needs
  `AuditSound`: an audit row that deleted something names an id up to `lastId`,
  which no later entry gets. `NoSilentLoss` is proved of every step.
* **ChatProxyProofs** (assuming also `ChatAssumption`): `CInv` is `TInv`, the
  invariant of the locks (`LInv`) and the handler's own. The first two carry
  over because each step of the handler is a step of the tables and of the
  locks or leaves them alone, and a kill puts the locks back to their start.
  `AnswerProvenance` is not inductive alone, since a hit copies what an entry
  holds: `StoredProvenance` says that an entry has the key of the request whose
  call produced its response. `LogReferenceValid` needs `StretchSound`: only
  the running coroutine is between a lookup or a store and its log row, so no
  purge, replacement or expiry by another request can come in between.
* **ChatRefinementProofs** (the same assumptions): `SInv` says what a
  request's variables are at each stage of its coroutine and what it holds or
  waits for, so that `LocksMatchStages` is a part of it; and that no entry holds
  the answer of a request that has not stored yet.
  `TypeOKChat` says that a request about to log has a response, which only
  `SInv` knows, so it is proved here (`ChatTyped`). From `CInv` and `SInv`:
  - `AnswerCacheImplemented`, step by step. A hit is `Reuse`; a miss or a bypass
    that goes upstream is `Ask`; the store of a miss is `Obtain`, an answer past
    the cache `ObtainPrivately`; the reply is `Deliver`; an error is `Fail`; a
    purge and the clock are `Forget`, a kill is `Lose`. Taking a lock and a
    second lookup that misses are stutters. What an entry's replacement makes
    unknown is a part of `Obtain`.
  - `LogMatchesReplies`: both sides of the equation count sets that grow in the
    same step. `HitCountMatchesLog` likewise, but a replaced or purged entry
    takes its count along, which is sound because its id never comes back and
    its references are cleared (`TInv`).
  - `NobodyStranded` needs `QueuesWait`, that whoever stands in a queue is
    waiting: only the first of a queue ever leaves its stage, and it leaves the
    queue in the same step. Who waits is in the queue of its lock, and a lock is
    held by nobody or by a request inside the handler (`SInv`, `QueuesSound`).
  - `StampedeCoalesced` needs `KInv`: until a failure or a loss, every lock was
    created by a request that is still inside it or has filled the cache
    (`LocksCreated`, `FreshLock`, `Calm`). Without it a state with two locks for
    one key would be allowed, and from there two calls are paid.
* **CalibrationProofs** (assuming `LexiconAssumption`, `LookupAssumption`,
  `TuneAssumption` and `CalibrationAssumption`): the veto is the same for a pair
  of texts in either order and under any two hash seeds (`VetoSymmetric`) and
  never refuses a text for itself (`VetoIrreflexive`). Of the antonym signal
  this needs that a pair has exactly two words: what is taken for the first word
  under one seed is put for the second under another, in the other text.
  `CalInv` is over lookups, sweeps and restarts.
  `ScanServesNearest` is not inductive: `BestSoFar` says of every row the loop
  has passed that it is no better than the running best, and of every row before
  the best one that it is worse. It needs the threshold to be a number, which
  after `Adopt` means that `max` found a result: `FirstOfBest` says there is
  one, and is kept by each step that appends a result, which takes the place of
  an induction over their number. That the report is never longer than
  `MAX_BORDERLINE` is shown by giving each pair in it a place of its own
  (`BorderlineBounded`). `ContinuationNotVetoed` is the argument behind
  `ContinuationSpared`: what the patterns find in a text they find in its
  continuation, so no signal has the evidence of both sides. For entities this
  needs the continuation to begin a token of its own (`EntitiesKept`): a token
  that is attached to the last one would change the entity it belongs to.
  `RecommendationRight` compares rounded F1 and is true only of few pairs, so
  its theorem assumes `FewPairs`: four times the square of their number is less
  than `F1Scale`, that is fewer than 50 at four digits, where `seed_test_pairs`,
  the only writer of `labeled_test_pairs`, has 31. `TuneInv` says that every
  result is the F1 of its place in the grid and that the pick is what `max` and
  the sort make of them. F1 is a fraction with a denominator of at most twice the
  number of pairs (`F1IsFraction`); rounding keeps the order of fractions
  (`RoundedMonotonic`), and keeps two apart that differ by more than a digit
  (`RoundedApart`). A pair that is near enough to flip and not in the report was
  cut off: the earliest such pair has only reported ones before it, so the
  report is full (`FirstInBand`, `CutOffIsFarther`).

* **StartupProofs** (assuming `RetentionAssumption` and `StartupAssumption`):
  `IInv` is about the file, not only about the states that serve requests. Of
  each step of the lifespan it says which tables exist and in which shape
  (`ShapeOK`), that a copy is empty while it is filled and complete when the old
  table goes (`EntriesOK`, `LogCopied`), and that a reference means an entry of
  whichever table will be the one (`RefsOK`). A kill only moves `step` to
  "down", so all of it must hold there too, and the first steps of the next
  start must restore what they promise from the shapes alone.
  The totals are about sums over sets of rows, which would be an induction over
  data. It is avoided: a sum over a set is the number of cells under a graph
  (`SumIsCells`), so sums are split, grouped by day and compared as
  cardinalities of finite sets; the one induction left, over the subsets of a
  finite set, is an instance of the well-foundedness of proper inclusion with
  the induction predicate as a set (`SubsetInduction`). The invariant is then
  that the rollup of each day has exactly what retention took from it: of the
  rows ever logged, those in neither the log nor its copy (`Gone`, `DailyOK`).
  `CostWithinRounding` adds half a unit for each day a pass touches (`CostOK`).

Only model-checked: liveness (`OpenCircuitAdmitsUnlessAbandoned`, `CallsEnd`,
`RequestsEnd`), which is outside the prover, and all that the counterexample
runs show.

Assumptions on constants that the proofs brought to light, each as the code has
it: there is an upstream (`ForwardAssumption`; `NextIsBreakerStep` speaks of the
one a call goes to), a missing answer is no response (`ChatAssumption`), and an
old file without a table has no rows of it (`Init` of `Startup`).

## Not modelled

* Several worker processes on one file. The image runs one, `routes/chat.py`
  limits its guard to one, and the documents list more as future work.
* A kill between the two transactions of one `lookup` (delete of the expired
  row, count of the semantic hit): the expired row is gone and nothing was
  counted, so no reference, key or count is affected. The model takes the
  function as one step.
* A wall clock that runs backwards.
* Mock mode, whose upstream answers without a wait: a subset of the behaviours.
* Latency, error texts, HTTP headers, and in the handler cost and token counts
  (`Retention` has them): no property is about them.
* Embeddings, the HMAC of the caller's key, configuration parsing, the price
  table, the admin gate, the dashboard, the scripts: pure, external or without
  state.
* How the patterns of `text.py` cut a string into tokens: the models start from
  the tokens. The word lists are constants, of which the run takes a part.
* Floating point in auto-tune: similarities and the band of 0.03 are whole steps
  (`InBand`), while the code subtracts floats (`eval.py:151-153`), where a pair
  exactly at the edge may fall on either side.
* That the cosine computed in the sweep, of bare prompts, says anything about
  the cosine at serving, of prompts with role tags: a question of data.

## Plan

1. *Done.* The core: breaker, forwarding, tables, locks, handler.
2. *Done.* `Retention` and `Startup`: the rollup, the migration and kills.
3. *Done.* `SemanticVeto`, `SemanticLookup`, `ThresholdTune`, `Calibration`: the
   semantic tier and the choice of its threshold.
4. *Done.* `AnswerCache`, and that `ChatProxy` implements it.
5. *Done.* Proofs of the semantic tier.
6. *Done.* Proofs that `UpstreamForward` implements `CircuitBreaker` and
   `ChatProxy` `AnswerCache`; of the counting invariants, `LocksMatchStages` and
   `StampedeCoalesced`; of every property of `Startup`.
7. *Done.* Proof that the recommendation is right for so few pairs as there
   are (`RecommendationRight`).
8. *Done.* The safety behind `RequestsEnd` as a theorem, that in no state every
   request waits for another one (`NobodyStranded`).
9. Next: the safety behind `CallsEnd`, that a call's attempts and what is left of
   its sleep go down in a well-founded order.
