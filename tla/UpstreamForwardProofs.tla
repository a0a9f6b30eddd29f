----------------------- MODULE UpstreamForwardProofs -----------------------
(***************************************************************************)
(* The retry loop and its breakers, for every set of calls and upstreams,  *)
(* every number of attempts, backoff, cap and threshold.                   *)
(*                                                                         *)
(* First what each step does to one upstream: it is a step of that         *)
(* upstream's breaker, or none at all.  From that, and from what a step of *)
(* a breaker preserves, an inductive invariant for all of them; from the   *)
(* invariant, that every breaker implements CircuitBreaker.tla.  The bound *)
(* on sleeping needs the attempt a call is in: each costs one sleep.       *)
(***************************************************************************)
EXTENDS UpstreamForward, FiniteSetTheorems, TLAPS

\* The longest a single sleep may be.
SleepCap == Max({MaxBackoff, MaxRetryAfter})

Call == [phase : Phases, upstream : Upstreams, attempt : 0 .. MaxAttempts,
         wait : Nat, slept : Nat, result : Results]

\* A call that posts has slept before each attempt but its first; one that
\* sleeps has an attempt left to sleep for.
Counted(r) ==
  /\ r.phase = "idle" => r.wait = 0 /\ r.slept = 0
  /\ r.phase = "posting" =>
       r.attempt >= 1 /\ r.wait = 0 /\ r.slept <= (r.attempt - 1) * SleepCap
  /\ r.phase = "sleeping" =>
       /\ r.attempt >= 1 /\ r.attempt < MaxAttempts
       /\ r.slept + r.wait <= r.attempt * SleepCap

CallsInv ==
  /\ call \in [Calls -> Call]
  /\ \A c \in Calls : Counted(call[c])

\* While u's circuit is closed the counts agree.
CountsAgree(u) ==
  B(u)!Active /\ ~B(u)!Opened(breakers[u]) =>
    history[u].streak = breakers[u].failures

\* What is invariant of the breaker of one upstream.
BreakerInv(u) ==
  /\ B(u)!TypeOK
  /\ B(u)!OpenIffTripped
  /\ CountsAgree(u)

\* One breaker and one history for each upstream.
OnePerUpstream ==
  /\ breakers = [u \in Upstreams |-> breakers[u]]
  /\ history = [u \in Upstreams |-> history[u]]

FInv ==
  /\ CallsInv
  /\ OnePerUpstream
  /\ \A u \in Upstreams : BreakerInv(u)

\* A step as the breaker of u sees it.
BreakerStep(u) == B(u)!Next \/ UNCHANGED B(u)!vars

-----------------------------------------------------------------------------
(* Arithmetic.                                                             *)

LEMMA MinOfTwo ==
  ASSUME NEW a \in Int, NEW b \in Int
  PROVE  Min({a, b}) \in {a, b} /\ Min({a, b}) <= b
BY DEF Min

LEMMA MaxOfTwo ==
  ASSUME NEW a \in Int, NEW b \in Int
  PROVE  Max({a, b}) \in {a, b} /\ Max({a, b}) >= a /\ Max({a, b}) >= b
BY DEF Max

\* A power of two is natural: it counts the subsets of an interval.
LEMMA PowerOfTwo == ASSUME NEW n \in Nat PROVE 2^n \in Nat
<1>1. IsFiniteSet(1 .. n) /\ Cardinality(1 .. n) = n
  BY FS_Interval
<1>2. /\ IsFiniteSet(SUBSET (1 .. n))
      /\ Cardinality(SUBSET (1 .. n)) = 2^n
  BY <1>1, FS_SUBSET
<1> QED BY <1>2, FS_CardinalityType

LEMMA CapIsNatural ==
  SleepCap \in Nat /\ MaxBackoff <= SleepCap /\ MaxRetryAfter <= SleepCap
<1>1. MaxBackoff \in Nat /\ MaxRetryAfter \in Nat
  BY ForwardAssumption
<1>2. /\ SleepCap \in {MaxBackoff, MaxRetryAfter}
      /\ SleepCap >= MaxBackoff /\ SleepCap >= MaxRetryAfter
  <2>1. MaxBackoff \in Int /\ MaxRetryAfter \in Int
    BY <1>1
  <2> QED BY <2>1, MaxOfTwo, Zenon DEF SleepCap
<1>3. SleepCap \in Nat
  BY <1>1, <1>2
<1> QED BY <1>1, <1>2, <1>3

\* No sleep is longer than the cap.
LEMMA DelayWithinCap ==
  ASSUME NEW n \in 1 .. MaxAttempts,
         NEW r \in RetryAfters \cup {NoRetryAfter}, ~TooLong(r)
  PROVE  Delay(n, r) \in Nat /\ Delay(n, r) <= SleepCap
<1>1. CASE r = NoRetryAfter
  <2>1. n - 1 \in Nat
    BY ForwardAssumption
  <2>2. 2^(n - 1) \in Nat
    BY <2>1, PowerOfTwo
  <2>3. BackoffBase * 2^(n - 1) \in Nat
    <3> DEFINE p == 2^(n - 1)
    <3>1. p \in Nat
      BY <2>2
    <3> HIDE DEF p
    <3>2. BackoffBase * p \in Nat
      BY <3>1, ForwardAssumption
    <3> QED BY <3>2 DEF p
  <2>4. /\ BackoffDelay(n) \in {BackoffBase * 2^(n - 1), MaxBackoff}
        /\ BackoffDelay(n) <= MaxBackoff
    <3>1. MaxBackoff \in Int /\ BackoffBase * 2^(n - 1) \in Int
      BY <2>3, ForwardAssumption
    <3> QED BY <3>1, MinOfTwo, Zenon DEF BackoffDelay
  <2>5. BackoffDelay(n) \in Nat
    BY <2>3, <2>4, ForwardAssumption
  <2> QED BY <1>1, <2>4, <2>5, CapIsNatural, ForwardAssumption DEF Delay
<1>2. CASE r # NoRetryAfter
  BY <1>2, CapIsNatural, ForwardAssumption DEF Delay, TooLong
<1> QED BY <1>1, <1>2

LEMMA CapTimes ==
  ASSUME NEW m \in Nat, NEW n \in Nat, m <= n
  PROVE  /\ m * SleepCap \in Nat
         /\ m * SleepCap <= n * SleepCap
         /\ m * SleepCap + SleepCap = (m + 1) * SleepCap
BY CapIsNatural

-----------------------------------------------------------------------------
(* What a step of a breaker preserves.                                     *)

LEMMA BreakerInvInit ==
  ASSUME NEW u \in Upstreams, B(u)!Init
  PROVE  BreakerInv(u)
<1>1. /\ breakers[u].failures = 0 /\ breakers[u].cooldown = -1
      /\ breakers[u].probing = FALSE
      /\ history[u].streak = 0
  BY DEF B!Init, B!NewBreaker, B!NoHistory, B!NotOpened
<1>2. B(u)!TypeOK
  BY ForwardAssumption
  DEF B!Init, B!TypeOK, B!NewBreaker, B!NoHistory, B!NotOpened, B!Breaker,
      B!History
<1> QED
  BY <1>1, <1>2, ForwardAssumption
  DEF B!Init, BreakerInv, B!OpenIffTripped, CountsAgree, B!Opened, B!Active,
      B!NotOpened

LEMMA AdmitKeepsBreaker ==
  ASSUME NEW u \in Upstreams, BreakerInv(u),
         NEW c \in Calls, B(u)!Admit(c)
  PROVE  BreakerInv(u)'
<1> USE DEF BreakerInv
<1>1. /\ breakers[u]' = B(u)!Admitted(breakers[u])
      /\ OnTheWay(u)' = OnTheWay(u) \cup {c}
      /\ history[u]' = B(u)!AfterAdmit(history[u], breakers[u], c)
  BY DEF B!Admit
<1>2. B(u)!TypeOK'
  BY <1>1
  DEF B!TypeOK, B!Admitted, B!AfterAdmit, B!Breaker, B!History
<1>3. /\ breakers[u]'.failures = breakers[u].failures
      /\ breakers[u]'.cooldown = breakers[u].cooldown
      /\ history[u]'.streak = history[u].streak
  BY <1>1 DEF B!TypeOK, B!Admitted, B!AfterAdmit, B!Breaker, B!History
<1>4. ~B(u)!Active => breakers[u]' = breakers[u]
  BY <1>1 DEF B!Admitted
<1> QED
  BY <1>2, <1>3, <1>4
  DEF B!OpenIffTripped, CountsAgree, B!Opened, B!NewBreaker, B!Active

LEMMA SucceedKeepsBreaker ==
  ASSUME NEW u \in Upstreams, BreakerInv(u),
         NEW c \in Calls, B(u)!Succeed(c)
  PROVE  BreakerInv(u)'
<1> USE DEF BreakerInv
<1>1. /\ breakers[u]' = B(u)!NewBreaker
      /\ OnTheWay(u)' = OnTheWay(u) \ {c}
      /\ history[u]' = B(u)!NoHistory
  BY DEF B!Succeed, B!RecordSuccess
<1>2. B(u)!TypeOK'
  BY <1>1, ForwardAssumption
  DEF B!TypeOK, B!NewBreaker, B!NoHistory, B!NotOpened, B!Breaker, B!History
<1>3. /\ breakers[u]'.failures = 0 /\ breakers[u]'.cooldown = -1
      /\ history[u]'.streak = 0
  BY <1>1 DEF B!NewBreaker, B!NoHistory, B!NotOpened
<1> QED
  BY <1>1, <1>2, <1>3, ForwardAssumption
  DEF B!OpenIffTripped, CountsAgree, B!Opened, B!NotOpened, B!Active

LEMMA FailKeepsBreaker ==
  ASSUME NEW u \in Upstreams, BreakerInv(u),
         NEW c \in Calls, B(u)!Fail(c)
  PROVE  BreakerInv(u)'
<1> USE DEF BreakerInv
<1> DEFINE b == breakers[u]
           h == history[u]
           streak == IF h.streak < FailureThreshold THEN h.streak + 1
                                                    ELSE h.streak
<1>1. /\ breakers[u]' = B(u)!RecordFailure(b)
      /\ OnTheWay(u)' = OnTheWay(u) \ {c}
      /\ history[u]' = B(u)!AfterFailure(h, b, c)
  BY DEF B!Fail
<1>2. b \in B(u)!Breaker /\ h \in B(u)!History
  BY DEF B!TypeOK
<1>3. b.failures \in Nat /\ h.streak \in Nat /\ streak \in Nat
  BY <1>2, ForwardAssumption DEF B!Breaker, B!History
<1>4. B(u)!RecordFailure(b) \in B(u)!Breaker
  <2>1. B(u)!Reopened(b) \in B(u)!Breaker
    <3>1. ResetSeconds \in (0 .. ResetSeconds) \cup {B(u)!NotOpened}
      BY ForwardAssumption
    <3> QED BY <1>2, <3>1 DEF B!Reopened, B!Breaker
  <2>2. B(u)!Counted(b) \in B(u)!Breaker
    <3> DEFINE n == b.failures + 1
               cooldown == IF n >= FailureThreshold THEN ResetSeconds
                                                    ELSE B(u)!NotOpened
    <3>1. /\ n \in Nat
          /\ cooldown \in (0 .. ResetSeconds) \cup {B(u)!NotOpened}
      BY <1>3, ForwardAssumption
    <3>2. B(u)!Counted(b) = [b EXCEPT !.failures = n, !.cooldown = cooldown]
      BY DEF B!Counted
    <3> HIDE DEF n, cooldown
    <3> QED BY <1>2, <3>1, <3>2 DEF B!Breaker
  <2> QED BY <1>2, <2>1, <2>2 DEF B!RecordFailure
<1>5. /\ history[u]' \in B(u)!History
      /\ history[u]'.probes = h.probes \ {c}
      /\ history[u]'.streak = streak
  <2>1. h.probes \ {c} \in SUBSET Calls
    BY <1>2 DEF B!History
  <2> DEFINE straggled == h.straggled \/ (B(u)!Active /\ B(u)!Opened(b)
                                            /\ c \notin h.probes)
  <2>2. straggled \in BOOLEAN
    OBVIOUS
  <2>3. B(u)!AfterFailure(h, b, c)
          = [probes |-> h.probes \ {c}, straggled |-> straggled,
             streak |-> streak, abandoned |-> FALSE]
    BY DEF B!AfterFailure
  <2> HIDE DEF h, b, streak, straggled
  <2>4. B(u)!AfterFailure(h, b, c) \in B(u)!History
    BY <1>3, <2>1, <2>2, <2>3 DEF B!History
  <2>5. /\ B(u)!AfterFailure(h, b, c).probes = h.probes \ {c}
        /\ B(u)!AfterFailure(h, b, c).streak = streak
    BY <2>3
  <2> QED BY <1>1, <2>4, <2>5
<1>6. B(u)!TypeOK'
  BY <1>1, <1>4, <1>5 DEF B!TypeOK, B!Breaker, B!History
<1>7. CASE ~B(u)!Active
  <2>1. breakers[u]' = b
    BY <1>1, <1>7 DEF B!RecordFailure
  <2> QED
    BY <1>6, <1>7, <2>1 DEF B!OpenIffTripped, CountsAgree, B!Active, B!NewBreaker
<1>8. CASE B(u)!Active /\ B(u)!Opened(b)
  <2>1. breakers[u]' = [b EXCEPT !.cooldown = ResetSeconds, !.probing = FALSE]
    BY <1>1, <1>8 DEF B!RecordFailure, B!Reopened
  <2>2. breakers[u]'.cooldown # -1
    BY <1>2, <2>1, ForwardAssumption DEF B!Breaker
  <2>3. history[u]'.streak >= FailureThreshold
    BY <1>3, <1>5, <1>8, ForwardAssumption DEF B!OpenIffTripped
  <2> QED
    BY <1>6, <1>8, <2>2, <2>3
    DEF B!OpenIffTripped, CountsAgree, B!Active, B!Opened, B!NotOpened
<1>9. CASE B(u)!Active /\ ~B(u)!Opened(b)
  <2>1. B(u)!RecordFailure(b) = B(u)!Counted(b)
    BY <1>9 DEF B!RecordFailure
  <2>2. /\ breakers[u]'.failures = b.failures + 1
        /\ breakers[u]'.cooldown
             = IF b.failures + 1 >= FailureThreshold THEN ResetSeconds ELSE -1
    BY <1>1, <1>2, <2>1 DEF B!Counted, B!Breaker, B!NotOpened
  <2>3. h.streak = b.failures /\ h.streak < FailureThreshold
    BY <1>3, <1>9, ForwardAssumption DEF B!OpenIffTripped, CountsAgree
  <2>4. history[u]'.streak = breakers[u]'.failures
    BY <1>5, <2>2, <2>3
  <2> QED
    BY <1>3, <1>6, <1>9, <2>2, <2>3, <2>4, ForwardAssumption
    DEF B!OpenIffTripped, CountsAgree, B!Opened, B!NotOpened, B!Active
<1> QED BY <1>7, <1>8, <1>9

LEMMA RejectKeepsBreaker ==
  ASSUME NEW u \in Upstreams, BreakerInv(u),
         NEW c \in Calls, B(u)!Reject(c)
  PROVE  BreakerInv(u)'
<1> USE DEF BreakerInv
<1>1. /\ breakers[u]' = breakers[u]
      /\ OnTheWay(u)' = OnTheWay(u) \ {c}
      /\ history[u]' = B(u)!AfterRejection(history[u], c)
  BY DEF B!Reject
<1>2. B(u)!TypeOK' /\ history[u]'.streak = history[u].streak
  BY <1>1 DEF B!TypeOK, B!History, B!AfterRejection
<1> QED BY <1>1, <1>2 DEF B!OpenIffTripped, CountsAgree, B!Opened

LEMMA TickKeepsBreaker ==
  ASSUME NEW u \in Upstreams, BreakerInv(u), B(u)!Tick
  PROVE  BreakerInv(u)'
<1> USE DEF BreakerInv
<1>1. /\ breakers[u].cooldown > 0
      /\ breakers[u]' = [breakers[u] EXCEPT !.cooldown = @ - 1]
      /\ OnTheWay(u)' = OnTheWay(u) /\ history[u]' = history[u]
  BY DEF B!Tick, B!Elapse
<1>2. B(u)!TypeOK'
  BY <1>1, ForwardAssumption DEF B!TypeOK, B!Breaker, B!NotOpened
<1>3. /\ breakers[u].cooldown # -1 /\ breakers[u]'.cooldown # -1
      /\ breakers[u]'.failures = breakers[u].failures
  BY <1>1, ForwardAssumption DEF B!TypeOK, B!Breaker
<1> QED
  BY <1>1, <1>2, <1>3
  DEF B!OpenIffTripped, CountsAgree, B!Opened, B!NotOpened, B!NewBreaker

\* Whatever step of its own a breaker takes.
LEMMA BreakerStepKeepsInv ==
  ASSUME NEW u \in Upstreams, BreakerInv(u), BreakerStep(u)
  PROVE  BreakerInv(u)'
<1>1. CASE UNCHANGED B(u)!vars
  BY <1>1
  DEF B!vars, BreakerInv, B!TypeOK, B!OpenIffTripped, CountsAgree, B!Opened
<1>2. CASE B(u)!Tick
  BY <1>2, TickKeepsBreaker
<1>3. ASSUME NEW c \in Calls, B(u)!Admit(c) PROVE BreakerInv(u)'
  BY <1>3, AdmitKeepsBreaker
<1>4. ASSUME NEW c \in Calls, B(u)!Refuse(c) PROVE UNCHANGED B(u)!vars
  BY <1>4 DEF B!Refuse
<1>5. ASSUME NEW c \in Calls, B(u)!Succeed(c) PROVE BreakerInv(u)'
  BY <1>5, SucceedKeepsBreaker
<1>6. ASSUME NEW c \in Calls, B(u)!Fail(c) PROVE BreakerInv(u)'
  BY <1>6, FailKeepsBreaker
<1>7. ASSUME NEW c \in Calls, B(u)!Reject(c) PROVE BreakerInv(u)'
  BY <1>7, RejectKeepsBreaker
<1> QED
  BY <1>1, <1>2, <1>3, <1>4, <1>5, <1>6, <1>7
  DEF BreakerStep, B!Next, B!Finish

-----------------------------------------------------------------------------
(* What a step of the calls is to the breakers.                            *)

LEMMA IdleIsCall ==
  ASSUME NEW n \in 0 .. MaxAttempts, NEW result \in Results
  PROVE  Idle(n, result) \in Call
<1>1. (CHOOSE u \in Upstreams : TRUE) \in Upstreams
  BY ForwardAssumption
<1> QED BY <1>1 DEF Idle, Call, Phases

\* The state of one call changes: who is on the way to v then.
LEMMA OneCallChanges ==
  ASSUME CallsInv, NEW c \in Calls, NEW r \in Call, Counted(r),
         call' = [call EXCEPT ![c] = r], NEW v \in Upstreams
  PROVE  /\ CallsInv'
         /\ OnTheWay(v)' = IF r.phase # "idle" /\ r.upstream = v
                           THEN OnTheWay(v) \cup {c} ELSE OnTheWay(v) \ {c}
<1>1. call' \in [Calls -> Call]
  BY DEF CallsInv
<1>2. \A d \in Calls : call'[d] = IF d = c THEN r ELSE call[d]
  BY DEF CallsInv
<1>3. \A d \in Calls : Counted(call'[d])
  BY <1>2 DEF CallsInv
<1> QED BY <1>1, <1>2, <1>3 DEF OnTheWay, CallsInv

\* A call changes and its upstream does not: no breaker sees it.
LEMMA UnseenChange ==
  ASSUME CallsInv, NEW c \in Calls, NEW r \in Call, Counted(r),
         call' = [call EXCEPT ![c] = r], UNCHANGED <<breakers, history>>,
         r.phase = "idle" <=> call[c].phase = "idle",
         r.phase # "idle" => r.upstream = call[c].upstream
  PROVE  CallsInv' /\ \A v \in Upstreams : BreakerStep(v)
<1>1. PICK v \in Upstreams : TRUE
  BY ForwardAssumption
<1>2. CallsInv'
  BY <1>1, OneCallChanges
<1>3. ASSUME NEW w \in Upstreams PROVE BreakerStep(w)
  <2>1. OnTheWay(w)' = IF r.phase # "idle" /\ r.upstream = w
                      THEN OnTheWay(w) \cup {c} ELSE OnTheWay(w) \ {c}
    BY OneCallChanges
  <2>2. c \in OnTheWay(w) <=> (r.phase # "idle" /\ r.upstream = w)
    BY DEF OnTheWay
  <2>3. OnTheWay(w)' = OnTheWay(w)
    BY <2>1, <2>2
  <2> QED BY <2>3 DEF BreakerStep, B!vars
<1> QED BY <1>2, <1>3

LEMMA StartIsBreakerStep ==
  ASSUME FInv, NEW c \in Calls, NEW u \in Upstreams, Start(c, u)
  PROVE  /\ CallsInv' /\ OnePerUpstream'
         /\ \A v \in Upstreams : BreakerStep(v)
<1> DEFINE r == [call[c] EXCEPT !.phase = "posting", !.upstream = u,
                                !.attempt = 1, !.result = "none"]
<1>1. CallsInv /\ call[c] \in Call /\ Counted(call[c])
  BY DEF FInv, CallsInv
<1>2. /\ r \in Call /\ r.phase = "posting" /\ r.upstream = u
      /\ r.attempt = 1 /\ r.wait = call[c].wait /\ r.slept = call[c].slept
  <2>1. 1 \in 0 .. MaxAttempts /\ "posting" \in Phases /\ "none" \in Results
    BY ForwardAssumption DEF Phases, Results
  <2> QED BY <1>1, <2>1 DEF Call
<1>3. call' = [call EXCEPT ![c] = r]
  BY DEF Start
<1> HIDE DEF r
<1>4. Counted(r)
  BY <1>1, <1>2, CapIsNatural DEF Start, Counted
<1>5. CallsInv'
  BY <1>1, <1>2, <1>3, <1>4, OneCallChanges
<1>6. OnePerUpstream'
  BY DEF Start, FInv, OnePerUpstream
<1>7. ASSUME NEW v \in Upstreams PROVE BreakerStep(v)
  <2>1. c \notin OnTheWay(v)
    BY DEF Start, OnTheWay
  <2>2. CASE v = u
    <3>1. OnTheWay(v)' = OnTheWay(v) \cup {c}
      BY <1>1, <1>2, <1>3, <1>4, <2>2, OneCallChanges
    <3>2. /\ B(v)!Allows(breakers[v])
          /\ breakers[v]' = B(v)!Admitted(breakers[v])
          /\ history[v]' = B(v)!AfterAdmit(history[v], breakers[v], c)
      BY <2>2 DEF Start, FInv, OnePerUpstream
    <3>3. B(v)!Admit(c)
      BY <2>1, <3>1, <3>2 DEF B!Admit
    <3> QED BY <3>3 DEF BreakerStep, B!Next
  <2>3. CASE v # u
    <3>1. OnTheWay(v)' = OnTheWay(v)
      <4>1. OnTheWay(v)' = OnTheWay(v) \ {c}
        BY <1>1, <1>2, <1>3, <1>4, <2>3, OneCallChanges
      <4> QED BY <2>1, <4>1
    <3>2. breakers[v]' = breakers[v] /\ history[v]' = history[v]
      BY <2>3 DEF Start, FInv, OnePerUpstream
    <3> QED BY <3>1, <3>2 DEF BreakerStep, B!vars
  <2> QED BY <2>2, <2>3
<1> QED BY <1>5, <1>6, <1>7

LEMMA IdleIsCounted ==
  ASSUME NEW n \in 0 .. MaxAttempts, NEW result \in Results
  PROVE  /\ Idle(n, result) \in Call /\ Counted(Idle(n, result))
         /\ Idle(n, result).phase = "idle"
BY IdleIsCall DEF Idle, Counted

LEMMA RefuseIsNoStep ==
  ASSUME FInv, NEW c \in Calls, NEW u \in Upstreams, Refuse(c, u)
  PROVE  /\ CallsInv' /\ OnePerUpstream'
         /\ \A v \in Upstreams : BreakerStep(v)
<1>1. 0 \in 0 .. MaxAttempts /\ "refused" \in Results
  BY ForwardAssumption DEF Results
<1>2. CallsInv' /\ \A v \in Upstreams : BreakerStep(v)
  BY <1>1, IdleIsCounted, UnseenChange DEF Refuse, FInv
<1> QED BY <1>2 DEF Refuse, FInv, OnePerUpstream

\* A call that posted ends: it leaves its own upstream and no other.
LEMMA CallEnds ==
  ASSUME FInv, NEW c \in Calls, call[c].phase = "posting",
         NEW result \in Results, End(c, result)
  PROVE  /\ CallsInv'
         /\ call[c].upstream \in Upstreams
         /\ \A v \in Upstreams :
              /\ OnTheWay(v)' = OnTheWay(v) \ {c}
              /\ c \in OnTheWay(v) <=> v = call[c].upstream
<1>1. CallsInv /\ call[c] \in Call
  BY DEF FInv, CallsInv
<1>2. call[c].attempt \in 0 .. MaxAttempts /\ call[c].upstream \in Upstreams
  BY <1>1 DEF Call
<1> DEFINE r == Idle(call[c].attempt, result)
<1>3. r \in Call /\ Counted(r) /\ r.phase = "idle"
  BY <1>2, IdleIsCounted
<1>4. call' = [call EXCEPT ![c] = r]
  BY DEF End
<1> HIDE DEF r
<1>5. ASSUME NEW v \in Upstreams
      PROVE  /\ CallsInv' /\ OnTheWay(v)' = OnTheWay(v) \ {c}
             /\ c \in OnTheWay(v) <=> v = call[c].upstream
  <2>1. CallsInv' /\ OnTheWay(v)' = OnTheWay(v) \ {c}
    BY <1>1, <1>3, <1>4, OneCallChanges
  <2>2. c \in OnTheWay(v) <=> v = call[c].upstream
    BY DEF OnTheWay
  <2> QED BY <2>1, <2>2
<1> QED BY <1>2, <1>5

LEMMA SuccessIsBreakerStep ==
  ASSUME FInv, NEW c \in Calls,
         NEW result \in {"answered", "garbled"}, PostSucceeds(c, result)
  PROVE  /\ CallsInv' /\ OnePerUpstream'
         /\ \A v \in Upstreams : BreakerStep(v)
<1> DEFINE u == call[c].upstream
<1>1. /\ call[c].phase = "posting" /\ End(c, result) /\ result \in Results
      /\ breakers' = [breakers EXCEPT ![u] = B(u)!RecordSuccess(@)]
      /\ history' = [history EXCEPT ![u] = B(u)!NoHistory]
  BY DEF PostSucceeds, Results
<1>2. /\ CallsInv' /\ u \in Upstreams
      /\ \A v \in Upstreams : /\ OnTheWay(v)' = OnTheWay(v) \ {c}
                              /\ c \in OnTheWay(v) <=> v = u
  BY <1>1, CallEnds
<1> HIDE DEF u
<1>3. OnePerUpstream'
  BY <1>1 DEF FInv, OnePerUpstream
<1>4. ASSUME NEW v \in Upstreams PROVE BreakerStep(v)
  <2>1. CASE v = u
    <3>1. /\ breakers[v]' = B(v)!RecordSuccess(breakers[v])
          /\ history[v]' = B(v)!NoHistory
      BY <1>1, <2>1 DEF FInv, OnePerUpstream
    <3>2. B(v)!Succeed(c)
      BY <1>2, <2>1, <3>1 DEF B!Succeed
    <3> QED BY <3>2 DEF BreakerStep, B!Next, B!Finish
  <2>2. CASE v # u
    <3>1. breakers[v]' = breakers[v] /\ history[v]' = history[v]
      BY <1>1, <2>2 DEF FInv, OnePerUpstream
    <3>2. OnTheWay(v)' = OnTheWay(v)
      BY <1>2, <2>2
    <3> QED BY <3>1, <3>2 DEF BreakerStep, B!vars
  <2> QED BY <2>1, <2>2
<1> QED BY <1>2, <1>3, <1>4

LEMMA RejectionIsBreakerStep ==
  ASSUME FInv, NEW c \in Calls, PostRejected(c)
  PROVE  /\ CallsInv' /\ OnePerUpstream'
         /\ \A v \in Upstreams : BreakerStep(v)
<1> DEFINE u == call[c].upstream
<1>1. /\ call[c].phase = "posting" /\ End(c, "rejected")
      /\ "rejected" \in Results
      /\ breakers' = breakers
      /\ history' = [history EXCEPT ![u] = B(u)!AfterRejection(@, c)]
  BY DEF PostRejected, Results
<1>2. /\ CallsInv' /\ u \in Upstreams
      /\ \A v \in Upstreams : /\ OnTheWay(v)' = OnTheWay(v) \ {c}
                              /\ c \in OnTheWay(v) <=> v = u
  BY <1>1, CallEnds
<1> HIDE DEF u
<1>3. OnePerUpstream'
  BY <1>1 DEF FInv, OnePerUpstream
<1>4. ASSUME NEW v \in Upstreams PROVE BreakerStep(v)
  <2>1. CASE v = u
    <3>1. /\ breakers[v]' = breakers[v]
          /\ history[v]' = B(v)!AfterRejection(history[v], c)
      BY <1>1, <2>1 DEF FInv, OnePerUpstream
    <3>2. B(v)!Reject(c)
      BY <1>2, <2>1, <3>1 DEF B!Reject
    <3> QED BY <3>2 DEF BreakerStep, B!Next, B!Finish
  <2>2. CASE v # u
    <3>1. breakers[v]' = breakers[v] /\ history[v]' = history[v]
      BY <1>1, <2>2 DEF FInv, OnePerUpstream
    <3>2. OnTheWay(v)' = OnTheWay(v)
      BY <1>2, <2>2
    <3> QED BY <3>1, <3>2 DEF BreakerStep, B!vars
  <2> QED BY <2>1, <2>2
<1> QED BY <1>2, <1>3, <1>4

LEMMA FailureIsBreakerStep ==
  ASSUME FInv, NEW c \in Calls,
         NEW retryAfter \in RetryAfters \cup {NoRetryAfter},
         PostGivesUp(c, retryAfter)
  PROVE  /\ CallsInv' /\ OnePerUpstream'
         /\ \A v \in Upstreams : BreakerStep(v)
<1> DEFINE u == call[c].upstream
<1>1. /\ call[c].phase = "posting" /\ End(c, "failed")
      /\ "failed" \in Results
      /\ breakers' = [breakers EXCEPT ![u] = B(u)!RecordFailure(@)]
      /\ history' = [history EXCEPT ![u] = B(u)!AfterFailure(@, breakers[u], c)]
  BY DEF PostGivesUp, ReportFailure, Results
<1>2. /\ CallsInv' /\ u \in Upstreams
      /\ \A v \in Upstreams : /\ OnTheWay(v)' = OnTheWay(v) \ {c}
                              /\ c \in OnTheWay(v) <=> v = u
  BY <1>1, CallEnds
<1> HIDE DEF u
<1>3. OnePerUpstream'
  BY <1>1 DEF FInv, OnePerUpstream
<1>4. ASSUME NEW v \in Upstreams PROVE BreakerStep(v)
  <2>1. CASE v = u
    <3>1. /\ breakers[v]' = B(v)!RecordFailure(breakers[v])
          /\ history[v]' = B(v)!AfterFailure(history[v], breakers[v], c)
      BY <1>1, <2>1 DEF FInv, OnePerUpstream
    <3>2. B(v)!Fail(c)
      BY <1>2, <2>1, <3>1 DEF B!Fail
    <3> QED BY <3>2 DEF BreakerStep, B!Next, B!Finish
  <2>2. CASE v # u
    <3>1. breakers[v]' = breakers[v] /\ history[v]' = history[v]
      BY <1>1, <2>2 DEF FInv, OnePerUpstream
    <3>2. OnTheWay(v)' = OnTheWay(v)
      BY <1>2, <2>2
    <3> QED BY <3>1, <3>2 DEF BreakerStep, B!vars
  <2> QED BY <2>1, <2>2
<1> QED BY <1>2, <1>3, <1>4

LEMMA BackoffIsNoStep ==
  ASSUME FInv, NEW c \in Calls,
         NEW retryAfter \in RetryAfters \cup {NoRetryAfter},
         PostBacksOff(c, retryAfter)
  PROVE  /\ CallsInv' /\ OnePerUpstream'
         /\ \A v \in Upstreams : BreakerStep(v)
<1> DEFINE n == call[c].attempt
           wait == Delay(n, retryAfter)
           r == [call[c] EXCEPT !.phase = "sleeping", !.wait = wait]
<1>1. CallsInv /\ call[c] \in Call /\ Counted(call[c])
  BY DEF FInv, CallsInv
<1>2. /\ n \in 1 .. MaxAttempts /\ n < MaxAttempts
      /\ call[c].slept \in Nat /\ call[c].slept <= (n - 1) * SleepCap
  BY <1>1, ForwardAssumption DEF PostBacksOff, Counted, LastAttempt, Call
<1>3. wait \in Nat /\ wait <= SleepCap
  BY <1>2, DelayWithinCap DEF PostBacksOff
<1>4. call' = [call EXCEPT ![c] = r] /\ UNCHANGED <<breakers, history>>
  BY DEF PostBacksOff
<1>5. call[c].phase = "posting"
  BY DEF PostBacksOff
<1>6. (n - 1) * SleepCap \in Nat /\ (n - 1) * SleepCap + SleepCap = n * SleepCap
  <2>1. n - 1 \in Nat /\ n \in Nat /\ (n - 1) + 1 = n
    BY <1>2
  <2> QED BY <2>1, CapTimes
<1> HIDE DEF n, wait
<1>7. call[c].slept + wait <= n * SleepCap
  <2> DEFINE before == (n - 1) * SleepCap
             after == n * SleepCap
  <2>1. before \in Nat /\ after = before + SleepCap /\ call[c].slept <= before
    BY <1>2, <1>6
  <2> HIDE DEF before, after
  <2>2. call[c].slept + wait <= after
    BY <1>2, <1>3, <2>1, CapIsNatural
  <2> QED BY <2>2 DEF after
<1>8. /\ r \in Call /\ r.phase = "sleeping" /\ r.upstream = call[c].upstream
      /\ r.attempt = n /\ r.wait = wait /\ r.slept = call[c].slept
  BY <1>1, <1>3 DEF Call, Phases, n
<1> HIDE DEF r
<1>9. Counted(r)
  BY <1>2, <1>7, <1>8 DEF Counted
<1>10. CallsInv' /\ \A v \in Upstreams : BreakerStep(v)
  BY <1>1, <1>4, <1>5, <1>8, <1>9, UnseenChange
<1> QED BY <1>4, <1>10 DEF FInv, OnePerUpstream

LEMMA WakeupIsNoStep ==
  ASSUME FInv, NEW c \in Calls, Wakeup(c)
  PROVE  /\ CallsInv' /\ OnePerUpstream'
         /\ \A v \in Upstreams : BreakerStep(v)
<1> DEFINE n == call[c].attempt
           r == [call[c] EXCEPT !.phase = "posting", !.attempt = n + 1]
<1>1. CallsInv /\ call[c] \in Call /\ Counted(call[c])
  BY DEF FInv, CallsInv
<1>2. /\ call[c].phase = "sleeping" /\ call[c].wait = 0
      /\ n \in Nat /\ n >= 1 /\ n + 1 \in 0 .. MaxAttempts
      /\ call[c].slept \in Nat /\ call[c].slept <= n * SleepCap
  BY <1>1, ForwardAssumption DEF Wakeup, Counted, Call
<1>3. call' = [call EXCEPT ![c] = r] /\ UNCHANGED <<breakers, history>>
  BY DEF Wakeup
<1>4. /\ r \in Call /\ r.phase = "posting" /\ r.upstream = call[c].upstream
      /\ r.attempt = n + 1 /\ r.wait = 0 /\ r.slept = call[c].slept
  BY <1>1, <1>2 DEF Call, Phases
<1> HIDE DEF n, r
<1>5. Counted(r)
  <2>1. (n + 1) - 1 = n /\ n + 1 >= 1
    BY <1>2
  <2> QED BY <1>2, <1>4, <2>1 DEF Counted
<1>6. CallsInv' /\ \A v \in Upstreams : BreakerStep(v)
  BY <1>1, <1>2, <1>3, <1>4, <1>5, UnseenChange
<1> QED BY <1>3, <1>6 DEF FInv, OnePerUpstream

\* Time passes in every sleep and in every cooldown at once.
LEMMA TickIsBreakerStep ==
  ASSUME FInv, Tick
  PROVE  /\ CallsInv' /\ OnePerUpstream'
         /\ \A v \in Upstreams : BreakerStep(v)
<1>1. CallsInv /\ call \in [Calls -> Call]
  BY DEF FInv, CallsInv
<1>2. ASSUME NEW c \in Calls
      PROVE  /\ call'[c] \in Call /\ Counted(call'[c])
             /\ call'[c].phase = call[c].phase
             /\ call'[c].upstream = call[c].upstream
  <2>1. call[c] \in Call /\ Counted(call[c])
    BY <1>1 DEF CallsInv
  <2>2. CASE c \in Asleep
    <3>1. /\ call'[c] = [call[c] EXCEPT !.wait = @ - 1, !.slept = @ + 1]
          /\ call[c].phase = "sleeping" /\ call[c].wait > 0
      BY <2>2 DEF Tick, Asleep
    <3>2. /\ call[c].wait \in Nat /\ call[c].wait - 1 \in Nat
          /\ call[c].slept \in Nat /\ call[c].slept + 1 \in Nat
      BY <2>1, <3>1 DEF Call
    <3> DEFINE wait == call[c].wait - 1
               slept == call[c].slept + 1
    <3>3. call'[c] = [call[c] EXCEPT !.wait = wait, !.slept = slept]
      BY <2>1, <3>1 DEF Call
    <3>4. slept + wait = call[c].slept + call[c].wait
      BY <3>2
    <3>5. wait \in Nat /\ slept \in Nat
      BY <3>2
    <3> HIDE DEF wait, slept
    <3>6. /\ call'[c] \in Call /\ call'[c].phase = "sleeping"
          /\ call'[c].upstream = call[c].upstream
          /\ call'[c].attempt = call[c].attempt
          /\ call'[c].wait = wait /\ call'[c].slept = slept
      BY <2>1, <3>1, <3>3, <3>5 DEF Call
    <3> QED BY <2>1, <3>1, <3>4, <3>6 DEF Counted
  <2>3. CASE c \notin Asleep
    <3>1. call'[c] = call[c]
      BY <2>3 DEF Tick
    <3> QED BY <2>1, <3>1
  <2> QED BY <2>2, <2>3
<1>3. CallsInv'
  <2>1. call' = [c \in Calls |-> call'[c]]
    BY DEF Tick
  <2> QED BY <1>2, <2>1 DEF CallsInv
<1>4. OnePerUpstream'
  BY DEF Tick, FInv, OnePerUpstream
<1>5. ASSUME NEW v \in Upstreams PROVE BreakerStep(v)
  <2>1. OnTheWay(v)' = OnTheWay(v)
    BY <1>2 DEF OnTheWay
  <2>2. breakers[v]' = B(v)!Elapse(breakers[v]) /\ history[v]' = history[v]
    BY DEF Tick
  <2>3. CASE breakers[v].cooldown > 0
    BY <2>1, <2>2, <2>3 DEF BreakerStep, B!Next, B!Tick
  <2>4. CASE ~(breakers[v].cooldown > 0)
    BY <2>1, <2>2, <2>4 DEF BreakerStep, B!Elapse, B!vars
  <2> QED BY <2>3, <2>4
<1> QED BY <1>3, <1>4, <1>5

\* Every step is a step of some upstreams' breakers and none of the others'.
LEMMA NextIsBreakerStep ==
  ASSUME FInv, Next
  PROVE  /\ CallsInv' /\ OnePerUpstream'
         /\ \A v \in Upstreams : BreakerStep(v)
<1> DEFINE Goal == /\ CallsInv' /\ OnePerUpstream'
                   /\ \A v \in Upstreams : BreakerStep(v)
<1>1. ASSUME Tick PROVE Goal
  BY <1>1, TickIsBreakerStep
<1>2. ASSUME NEW c \in Calls, NEW u \in Upstreams, Start(c, u) PROVE Goal
  BY <1>2, StartIsBreakerStep
<1>3. ASSUME NEW c \in Calls, NEW u \in Upstreams, Refuse(c, u) PROVE Goal
  BY <1>3, RefuseIsNoStep
<1>4. ASSUME NEW c \in Calls, NEW result \in {"answered", "garbled"},
             PostSucceeds(c, result)
      PROVE  Goal
  BY <1>4, SuccessIsBreakerStep
<1>5. ASSUME NEW c \in Calls, PostRejected(c) PROVE Goal
  BY <1>5, RejectionIsBreakerStep
<1>6. ASSUME NEW c \in Calls, NEW r \in RetryAfters \cup {NoRetryAfter},
             PostGivesUp(c, r)
      PROVE  Goal
  BY <1>6, FailureIsBreakerStep
<1>7. ASSUME NEW c \in Calls, NEW r \in RetryAfters \cup {NoRetryAfter},
             PostBacksOff(c, r)
      PROVE  Goal
  BY <1>7, BackoffIsNoStep
<1>8. ASSUME NEW c \in Calls, Wakeup(c) PROVE Goal
  BY <1>8, WakeupIsNoStep
<1> HIDE DEF Goal
<1>9. Goal
  BY <1>1, <1>2, <1>3, <1>4, <1>5, <1>6, <1>7, <1>8 DEF Next, PostEnds
<1> QED BY <1>9 DEF Goal

-----------------------------------------------------------------------------
(* The inductive invariant, and what follows.                              *)

LEMMA InitStartsBreakers == Init => \A u \in Upstreams : B(u)!Init
BY DEF Init, OnTheWay, Idle, B!Init

LEMMA InitEstablishesFInv == Init => FInv
<1> SUFFICES ASSUME Init PROVE FInv
  OBVIOUS
<1>1. CallsInv
  <2>1. 0 \in 0 .. MaxAttempts /\ "none" \in Results
    BY ForwardAssumption DEF Results
  <2> QED BY <2>1, IdleIsCounted DEF Init, CallsInv
<1>2. OnePerUpstream
  BY DEF Init, OnePerUpstream
<1>3. \A u \in Upstreams : BreakerInv(u)
  BY InitStartsBreakers, BreakerInvInit
<1> QED BY <1>1, <1>2, <1>3 DEF FInv

LEMMA StutterIsBreakerStep ==
  ASSUME FInv, UNCHANGED vars
  PROVE  /\ CallsInv' /\ OnePerUpstream'
         /\ \A v \in Upstreams : BreakerStep(v)
<1>1. call' = call /\ breakers' = breakers /\ history' = history
  BY DEF vars
<1>2. CallsInv' /\ OnePerUpstream'
  BY <1>1 DEF FInv, CallsInv, OnePerUpstream
<1>3. ASSUME NEW v \in Upstreams PROVE BreakerStep(v)
  BY <1>1 DEF BreakerStep, B!vars, OnTheWay
<1> QED BY <1>2, <1>3

LEMMA NextPreservesFInv == FInv /\ [Next]_vars => FInv'
<1> SUFFICES ASSUME FInv, [Next]_vars PROVE FInv'
  OBVIOUS
<1>1. /\ CallsInv' /\ OnePerUpstream'
      /\ \A u \in Upstreams : BreakerStep(u)
  BY NextIsBreakerStep, StutterIsBreakerStep
<1>2. ASSUME NEW u \in Upstreams PROVE BreakerInv(u)'
  BY <1>1, BreakerStepKeepsInv DEF FInv
<1> QED BY <1>1, <1>2 DEF FInv

\* The inductive invariant holds in every reachable state.
THEOREM ForwardInvariance == Spec => []FInv
BY InitEstablishesFInv, NextPreservesFInv, PTL DEF Spec

\* Calls, breakers and histories keep their types, whatever the retries do;
\* no call is ever in an attempt beyond the last.
THEOREM ForwardTyped == Spec => []TypeOK
<1>1. FInv => TypeOK
  BY DEF FInv, CallsInv, Call, TypeOK, BreakerInv
<1> QED BY <1>1, ForwardInvariance, PTL

\* A circuit is open only if the calls to its own upstream failed so often in
\* a row: a failure storm on one provider blocks no other.
THEOREM BreakersAreSeparate == Spec => []OpenOnOwnFailures
<1>1. FInv => OpenOnOwnFailures
  BY DEF FInv, BreakerInv, OpenOnOwnFailures
<1> QED BY <1>1, ForwardInvariance, PTL

\* However attempts, backoffs and Retry-After values mix, a call sleeps no
\* longer than one cap for each attempt but the last.
THEOREM SleepIsBounded == Spec => []SleepBounded
<1>1. FInv => SleepBounded
  <2> SUFFICES ASSUME FInv, NEW c \in Calls
               PROVE  call[c].slept + call[c].wait
                        <= (MaxAttempts - 1) * SleepCap
    BY DEF SleepBounded, SleepCap
  <2>1. call[c] \in Call /\ Counted(call[c])
    BY DEF FInv, CallsInv
  <2>2. /\ call[c].attempt \in 0 .. MaxAttempts /\ MaxAttempts - 1 \in Nat
        /\ call[c].slept \in Nat /\ call[c].wait \in Nat
        /\ call[c].phase \in Phases
    BY <2>1, ForwardAssumption DEF Call
  <2>3. CASE call[c].phase = "idle"
    <3>1. (MaxAttempts - 1) * SleepCap \in Nat
      BY <2>2, CapTimes
    <3> QED BY <2>1, <2>3, <3>1 DEF Counted
  <2>4. CASE call[c].phase = "posting"
    <3>1. /\ call[c].attempt - 1 \in Nat
          /\ call[c].attempt - 1 <= MaxAttempts - 1
          /\ call[c].slept <= (call[c].attempt - 1) * SleepCap
          /\ call[c].wait = 0
      <4>1. /\ call[c].attempt >= 1 /\ call[c].wait = 0
            /\ call[c].slept <= (call[c].attempt - 1) * SleepCap
        BY <2>1, <2>4 DEF Counted
      <4> QED BY <2>2, <4>1, ForwardAssumption
    <3> DEFINE m == (call[c].attempt - 1) * SleepCap
               k == (MaxAttempts - 1) * SleepCap
    <3>2. m \in Nat /\ m <= k /\ k \in Nat
      BY <2>2, <3>1, CapTimes
    <3>3. call[c].slept <= m
      BY <3>1
    <3> HIDE DEF m, k
    <3>4. call[c].slept + call[c].wait <= k
      BY <2>2, <3>1, <3>2, <3>3
    <3> QED BY <3>4 DEF k
  <2>5. CASE call[c].phase = "sleeping"
    <3>1. /\ call[c].attempt \in Nat /\ call[c].attempt <= MaxAttempts - 1
          /\ call[c].slept + call[c].wait <= call[c].attempt * SleepCap
      BY <2>1, <2>2, <2>5, ForwardAssumption DEF Counted
    <3> DEFINE m == call[c].attempt * SleepCap
               k == (MaxAttempts - 1) * SleepCap
    <3>2. m \in Nat /\ m <= k /\ k \in Nat
      BY <2>2, <3>1, CapTimes
    <3>3. call[c].slept + call[c].wait <= m
      BY <3>1
    <3> HIDE DEF m, k
    <3>4. call[c].slept + call[c].wait <= k
      BY <2>2, <3>2, <3>3
    <3> QED BY <3>4 DEF k
  <2> QED BY <2>2, <2>3, <2>4, <2>5 DEF Phases
<1> QED BY <1>1, ForwardInvariance, PTL

\* What the calls do to each upstream's breaker is a behaviour of
\* CircuitBreaker.tla: every step is a step of that breaker, or leaves it.
THEOREM BreakersAreImplemented == Spec => BreakersImplemented
<1>1. FInv /\ [Next]_vars =>
        [\A u \in Upstreams : B(u)!Next \/ UNCHANGED B(u)!vars]_vars
  BY NextIsBreakerStep DEF BreakerStep
<1> QED
  BY <1>1, InitStartsBreakers, ForwardInvariance, PTL
  DEF Spec, BreakersImplemented

=============================================================================
