-------------------------- MODULE UpstreamForward --------------------------
(***************************************************************************)
(* forward_to_llm and _post_with_retries of llm_client.py: calls to        *)
(* several upstreams, each call a bounded loop of posts and sleeps, each   *)
(* upstream with a circuit breaker of its own.  Between two awaits a call  *)
(* is atomic; a call awaits the answer of a post or the end of a sleep.    *)
(*                                                                         *)
(* A call is a record:                                                     *)
(*   phase     where its coroutine is: see Phases                          *)
(*   upstream  the base URL it was sent to                                 *)
(*   attempt   the loop variable of _post_with_retries                     *)
(*   wait      what is left of the current sleep                           *)
(*   slept     the time spent asleep so far                                *)
(*   result    how the call last ended: see Results                        *)
(* Callers come back, so an idle call may start again.                     *)
(***************************************************************************)
EXTENDS Integers, FiniteSets, FiniteSetsExt

CONSTANTS
  Calls,             \* calls that may be in progress at once
  Upstreams,         \* allowlisted base URLs, of which there are some
  MaxAttempts,       \* LLM_RETRY_MAX_ATTEMPTS, clamped to >= 1
  BackoffBase,       \* LLM_RETRY_BACKOFF_SECONDS, clamped to >= 0
  MaxBackoff,        \* _MAX_BACKOFF_SECONDS
  MaxRetryAfter,     \* _MAX_RETRY_AFTER_SECONDS
  RetryAfters,       \* the Retry-After values upstreams may send
  FailureThreshold,  \* LLM_BREAKER_FAILURE_THRESHOLD
  ResetSeconds       \* LLM_BREAKER_RESET_SECONDS, clamped to >= 0

ASSUME ForwardAssumption ==
  /\ Upstreams # {}
  /\ MaxAttempts \in Nat \ {0}
  /\ {BackoffBase, MaxBackoff, MaxRetryAfter, ResetSeconds} \subseteq Nat
  /\ RetryAfters \subseteq Nat
  /\ FailureThreshold \in Int

VARIABLES
  call,      \* Calls -> the state of each call
  breakers,  \* _breakers: Upstreams -> CircuitBreaker
  history    \* per upstream, the history CircuitBreaker.tla keeps

vars == <<call, breakers, history>>

\* The calls on upstream u that its breaker admitted and that have not ended.
OnTheWay(u) ==
  {c \in Calls : call[c].phase # "idle" /\ call[c].upstream = u}

B(u) == INSTANCE CircuitBreaker
          WITH Outcomes <- {"success", "transient", "rejected"},
               breaker  <- breakers[u],
               inFlight <- OnTheWay(u),
               history  <- history[u]

\* "posting"   awaiting client.post
\* "sleeping"  awaiting the sleep before the next attempt
Phases == {"idle", "posting", "sleeping"}

\* "none"       never called
\* "answered"   a 2xx answer with a JSON body, returned to the caller
\* "garbled"    a 2xx answer whose body is no JSON: resp.json() raises
\* "refused"    CircuitOpenError, without a post
\* "rejected"   an httpx error that is not retryable
\* "failed"     a retryable-class error after the last attempt, or one whose
\*              Retry-After is too long to wait for
Results == {"none", "answered", "garbled", "refused", "rejected", "failed"}

NoRetryAfter == -1

\* An idle call keeps its result and the attempt it ended in.
Idle(attempt, result) ==
  [phase |-> "idle", upstream |-> CHOOSE u \in Upstreams : TRUE,
   attempt |-> attempt, wait |-> 0, slept |-> 0, result |-> result]

TypeOK ==
  /\ call \in [Calls -> [phase : Phases, upstream : Upstreams,
                         attempt : 0 .. MaxAttempts, wait : Nat, slept : Nat,
                         result : Results]]
  /\ \A u \in Upstreams : B(u)!TypeOK

-----------------------------------------------------------------------------
BackoffDelay(attempt) == Min({BackoffBase * 2^(attempt - 1), MaxBackoff})

\* Fault: no Retry-After is too long.
NeverTooLong(retryAfter) == FALSE

\* "Server asked for a longer wait than we will spend in-request."
TooLong(retryAfter) == retryAfter > MaxRetryAfter

\* The delay before the attempt that follows.
Delay(attempt, retryAfter) ==
  IF retryAfter = NoRetryAfter THEN BackoffDelay(attempt) ELSE retryAfter

\* Fault: one attempt too many.
LastAttemptLate(attempt) == attempt > MaxAttempts

LastAttempt(attempt) == attempt = MaxAttempts

-----------------------------------------------------------------------------
Init ==
  /\ call = [c \in Calls |-> Idle(0, "none")]
  /\ breakers = [u \in Upstreams |-> B(u)!NewBreaker]
  /\ history = [u \in Upstreams |-> B(u)!NoHistory]

\* forward_to_llm up to its first await: the breaker of this upstream is
\* asked, and the first post goes out.
Start(c, u) ==
  /\ call[c].phase = "idle"
  /\ B(u)!Allows(breakers[u])
  /\ call' = [call EXCEPT ![c] = [@ EXCEPT !.phase = "posting",
                                           !.upstream = u, !.attempt = 1,
                                           !.result = "none"]]
  /\ breakers' = [breakers EXCEPT ![u] = B(u)!Admitted(@)]
  /\ history' = [history EXCEPT ![u] = B(u)!AfterAdmit(@, breakers[u], c)]

Refuse(c, u) ==
  /\ call[c].phase = "idle"
  /\ ~B(u)!Allows(breakers[u])
  /\ call' = [call EXCEPT ![c] = Idle(0, "refused")]
  /\ UNCHANGED <<breakers, history>>

\* The call ends; what its end tells the breakers is in the next operators.
End(c, result) == call' = [call EXCEPT ![c] = Idle(@.attempt, result)]

\* record_success() comes before resp.json(), which may still raise.
PostSucceeds(c, result) ==
  LET u == call[c].upstream
  IN  /\ call[c].phase = "posting"
      /\ End(c, result)
      /\ breakers' = [breakers EXCEPT ![u] = B(u)!RecordSuccess(@)]
      /\ history' = [history EXCEPT ![u] = B(u)!NoHistory]

PostRejected(c) ==
  LET u == call[c].upstream
  IN  /\ call[c].phase = "posting"
      /\ End(c, "rejected")
      /\ history' = [history EXCEPT ![u] = B(u)!AfterRejection(@, c)]
      /\ UNCHANGED breakers

\* Fault: one breaker's failure counts for every upstream.
ReportFailureToAll(c, u) ==
  /\ breakers' = [v \in Upstreams |-> B(v)!RecordFailure(breakers[v])]
  /\ history' = [history EXCEPT ![u] = B(u)!AfterFailure(@, breakers[u], c)]

ReportFailure(c, u) ==
  /\ breakers' = [breakers EXCEPT ![u] = B(u)!RecordFailure(@)]
  /\ history' = [history EXCEPT ![u] = B(u)!AfterFailure(@, breakers[u], c)]

\* A retryable-class error that is not retried: the last attempt, or a
\* Retry-After that is too long.
PostGivesUp(c, retryAfter) ==
  /\ call[c].phase = "posting"
  /\ LastAttempt(call[c].attempt) \/ TooLong(retryAfter)
  /\ End(c, "failed")
  /\ ReportFailure(c, call[c].upstream)

\* Fault: every failed attempt is reported, not the call as a whole.
PostBacksOffReporting(c, retryAfter) ==
  /\ call[c].phase = "posting"
  /\ ~LastAttempt(call[c].attempt) /\ ~TooLong(retryAfter)
  /\ call' = [call EXCEPT ![c] =
                [@ EXCEPT !.phase = "sleeping",
                          !.wait  = Delay(call[c].attempt, retryAfter)]]
  /\ ReportFailure(c, call[c].upstream)

\* A retryable-class error, and the sleep before the next attempt.
PostBacksOff(c, retryAfter) ==
  /\ call[c].phase = "posting"
  /\ ~LastAttempt(call[c].attempt) /\ ~TooLong(retryAfter)
  /\ call' = [call EXCEPT ![c] =
                [@ EXCEPT !.phase = "sleeping",
                          !.wait  = Delay(call[c].attempt, retryAfter)]]
  /\ UNCHANGED <<breakers, history>>

\* Fault: the retry is a call of its own, with all its attempts before it.
WakeupAsNewCall(c) ==
  /\ call[c].phase = "sleeping" /\ call[c].wait = 0
  /\ call' = [call EXCEPT ![c] = [@ EXCEPT !.phase = "posting",
                                           !.attempt = 1, !.slept = 0]]
  /\ UNCHANGED <<breakers, history>>

\* The next turn of the loop.  The breaker is not asked again.
Wakeup(c) ==
  /\ call[c].phase = "sleeping" /\ call[c].wait = 0
  /\ call' = [call EXCEPT ![c] = [@ EXCEPT !.phase = "posting",
                                           !.attempt = call[c].attempt + 1]]
  /\ UNCHANGED <<breakers, history>>

Asleep == {c \in Calls : call[c].phase = "sleeping" /\ call[c].wait > 0}

\* One second.  A sleep that is over delays no clock.
Tick ==
  /\ Asleep # {} \/ \E u \in Upstreams : breakers[u].cooldown > 0
  /\ call' = [c \in Calls |->
                IF c \in Asleep
                THEN [call[c] EXCEPT !.wait = @ - 1, !.slept = @ + 1]
                ELSE call[c]]
  /\ breakers' = [u \in Upstreams |-> B(u)!Elapse(breakers[u])]
  /\ UNCHANGED history

PostEnds(c) ==
  \/ \E result \in {"answered", "garbled"} : PostSucceeds(c, result)
  \/ PostRejected(c)
  \/ \E r \in RetryAfters \cup {NoRetryAfter} :
       PostGivesUp(c, r) \/ PostBacksOff(c, r)

Next ==
  \/ Tick
  \/ \E c \in Calls :
       \/ \E u \in Upstreams : Start(c, u) \/ Refuse(c, u)
       \/ PostEnds(c)
       \/ Wakeup(c)

\* Time passes, every post is answered or times out (httpx's 120 s), and the
\* event loop resumes a coroutine whose sleep is over.
Fairness ==
  /\ WF_vars(Tick)
  /\ \A c \in Calls : WF_vars(PostEnds(c)) /\ WF_vars(Wakeup(c))

Spec == Init /\ [][Next]_vars /\ Fairness

-----------------------------------------------------------------------------
(* Properties.                                                             *)

\* Each upstream's breaker behaves as CircuitBreaker.tla says, whatever calls
\* to the other upstreams do: a call admitted by allow() reports to that
\* breaker at most once, when it ends, and not while it is being retried.
\* This is \A u \in Upstreams : B(u)!SafetySpec, with the quantifier inside.
BreakersImplemented ==
  /\ \A u \in Upstreams : B(u)!Init
  /\ [][\A u \in Upstreams : B(u)!Next \/ UNCHANGED B(u)!vars]_vars

\* "a failure storm on one provider must not block callers whose keys point at
\* another" (the comment on _breakers): a breaker is open only if the calls to
\* its own upstream failed FailureThreshold times in a row.
OpenOnOwnFailures == \A u \in Upstreams : B(u)!OpenIffTripped

\* What retrying may cost a caller: at most MaxAttempts - 1 sleeps, none
\* longer than the longer of the two caps.
SleepBounded ==
  \A c \in Calls :
    call[c].slept + call[c].wait
      <= (MaxAttempts - 1) * Max({MaxBackoff, MaxRetryAfter})

\* forward_to_llm's docstring: "bounded by max attempts x backoff cap".
SleepWithinBackoffBound ==
  \A c \in Calls : call[c].slept <= MaxAttempts * MaxBackoff

\* Every call comes back to its caller.
CallsEnd == \A c \in Calls : call[c].phase # "idle" ~> call[c].phase = "idle"

=============================================================================
