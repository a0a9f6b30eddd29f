--------------------------- MODULE CircuitBreaker ---------------------------
(***************************************************************************)
(* The per-upstream circuit breaker of llm_client.py and the forward calls *)
(* that pass through it.  One event loop runs every call, so each method   *)
(* of CircuitBreaker is one atomic step; calls overlap only while they     *)
(* wait for the network.                                                   *)
(*                                                                         *)
(* A breaker is a record:                                                  *)
(*   failures  _consecutive_failures                                       *)
(*   cooldown  what is left of reset_seconds since _opened_at, down to 0;  *)
(*             NotOpened stands for "_opened_at is None"                   *)
(*   probing   _probe_in_flight                                            *)
(* The code only ever compares monotonic() - _opened_at with               *)
(* reset_seconds, so the remaining time is all that can be observed.       *)
(*                                                                         *)
(* The history variable records what the calls did, independently of what  *)
(* the breaker remembers:                                                  *)
(*   probes     calls in flight that were admitted while the circuit was   *)
(*              open, since the last success                               *)
(*   straggled  since the circuit opened, a call admitted before that has  *)
(*              reported a failure                                         *)
(*   streak     failures in a row, counted up to FailureThreshold          *)
(*   abandoned  a probe has ended without reporting, and no call has       *)
(*              reported since                                             *)
(***************************************************************************)
EXTENDS Integers, FiniteSets

CONSTANTS
  Calls,             \* forward calls that may be in flight at once
  FailureThreshold,  \* LLM_BREAKER_FAILURE_THRESHOLD
  ResetSeconds,      \* LLM_BREAKER_RESET_SECONDS, already clamped to >= 0
  Outcomes           \* how calls may end: see AllOutcomes

\* "success"    a 2xx answer
\* "transient"  a transport error, 408/429 or 5xx, after the retries
\* "rejected"   anything else httpx raises: 3xx/4xx, undecodable content
AllOutcomes == {"success", "transient", "rejected"}

ASSUME BreakerAssumption ==
  /\ FailureThreshold \in Int
  /\ ResetSeconds \in Nat
  /\ Outcomes \subseteq AllOutcomes

VARIABLES
  breaker,    \* the CircuitBreaker object
  inFlight,   \* calls allow() admitted that have not ended yet
  history     \* see above

vars == <<breaker, inFlight, history>>

NotOpened == -1

Breaker == [failures : Nat,
            cooldown : (0 .. ResetSeconds) \cup {NotOpened},
            probing  : BOOLEAN]

History == [probes : SUBSET Calls, straggled : BOOLEAN, streak : Nat,
            abandoned : BOOLEAN]

TypeOK ==
  /\ breaker \in Breaker
  /\ inFlight \subseteq Calls
  /\ history \in History
  /\ history.probes \subseteq inFlight

-----------------------------------------------------------------------------
(* The methods of the class, as functions of the object's state.           *)

NewBreaker == [failures |-> 0, cooldown |-> NotOpened, probing |-> FALSE]

Active == FailureThreshold > 0

Opened(b) == b.cooldown # NotOpened

CooldownElapsed(b) == b.cooldown = 0

\* Fault: the cooldown alone admits, whether or not a probe is out.
AllowsWhileProbing(b) == ~Active \/ ~Opened(b) \/ CooldownElapsed(b)

\* What allow() answers.
Allows(b) ==
  \/ ~Active
  \/ ~Opened(b)
  \/ CooldownElapsed(b) /\ ~b.probing

\* What allow() leaves behind when it answers True.
Admitted(b) ==
  IF Active /\ Opened(b) THEN [b EXCEPT !.probing = TRUE] ELSE b

\* Fault: the probe flag survives a success.
RecordSuccessStillProbing(b) == [NewBreaker EXCEPT !.probing = b.probing]

RecordSuccess(b) == NewBreaker

\* Fault: the failed probe leaves its flag behind.
ReopenedStillProbing(b) == [b EXCEPT !.cooldown = ResetSeconds]

\* Fault: the new cooldown is added to what the configuration allows.
ReopenedLonger(b) ==
  [b EXCEPT !.cooldown = ResetSeconds + 1, !.probing = FALSE]

Reopened(b) == [b EXCEPT !.cooldown = ResetSeconds, !.probing = FALSE]

Counted(b) ==
  LET n == b.failures + 1
  IN  [b EXCEPT !.failures = n,
                !.cooldown = IF n >= FailureThreshold THEN ResetSeconds
                                                      ELSE NotOpened]

RecordFailure(b) ==
  IF ~Active THEN b ELSE IF Opened(b) THEN Reopened(b) ELSE Counted(b)

\* One second of time.monotonic() passing.
Elapse(b) == IF b.cooldown > 0 THEN [b EXCEPT !.cooldown = @ - 1] ELSE b

-----------------------------------------------------------------------------
(* The history after a call c is admitted by, or reports to, breaker b.    *)

NoHistory == [probes |-> {}, straggled |-> FALSE, streak |-> 0,
              abandoned |-> FALSE]

AfterAdmit(h, b, c) ==
  IF Active /\ Opened(b) THEN [h EXCEPT !.probes = @ \cup {c}] ELSE h

AfterFailure(h, b, c) ==
  [probes    |-> h.probes \ {c},
   straggled |-> h.straggled \/ (Active /\ Opened(b) /\ c \notin h.probes),
   streak    |-> IF h.streak < FailureThreshold THEN h.streak + 1
                                                ELSE h.streak,
   abandoned |-> FALSE]

AfterRejection(h, c) ==
  [h EXCEPT !.probes = @ \ {c}, !.abandoned = @ \/ c \in h.probes]

-----------------------------------------------------------------------------
Init ==
  /\ breaker = NewBreaker
  /\ inFlight = {}
  /\ history = NoHistory

\* forward_to_llm asks allow() and goes to the network.
Admit(c) ==
  /\ c \notin inFlight
  /\ Allows(breaker)
  /\ breaker' = Admitted(breaker)
  /\ inFlight' = inFlight \cup {c}
  /\ history' = AfterAdmit(history, breaker, c)

\* allow() answers False: CircuitOpenError, and nothing has changed.
Refuse(c) ==
  /\ c \notin inFlight
  /\ ~Allows(breaker)
  /\ UNCHANGED vars

\* A 2xx answer: record_success().  Whoever is still in flight was admitted
\* before any later opening, hence the empty history.
Succeed(c) ==
  /\ "success" \in Outcomes
  /\ c \in inFlight
  /\ breaker' = RecordSuccess(breaker)
  /\ inFlight' = inFlight \ {c}
  /\ history' = NoHistory

\* A retryable-class outcome that the retries did not cure: record_failure().
Fail(c) ==
  /\ "transient" \in Outcomes
  /\ c \in inFlight
  /\ breaker' = RecordFailure(breaker)
  /\ inFlight' = inFlight \ {c}
  /\ history' = AfterFailure(history, breaker, c)

\* Fault: every HTTP error is reported, as if it spoke of upstream health.
RejectCounting(c) ==
  /\ "rejected" \in Outcomes
  /\ c \in inFlight
  /\ breaker' = RecordFailure(breaker)
  /\ inFlight' = inFlight \ {c}
  /\ history' = AfterRejection(history, c)

\* Any other exception propagates without a word to the breaker.
Reject(c) ==
  /\ "rejected" \in Outcomes
  /\ c \in inFlight
  /\ inFlight' = inFlight \ {c}
  /\ history' = AfterRejection(history, c)
  /\ UNCHANGED breaker

Finish(c) == Succeed(c) \/ Fail(c) \/ Reject(c)

Tick ==
  /\ breaker.cooldown > 0
  /\ breaker' = Elapse(breaker)
  /\ UNCHANGED <<inFlight, history>>

Next == Tick \/ \E c \in Calls : Admit(c) \/ Refuse(c) \/ Finish(c)

SafetySpec == Init /\ [][Next]_vars

\* Time passes, and every call ends: the shared client's 120 s timeout bounds
\* each attempt and the number of attempts is bounded.
Fairness == WF_vars(Tick) /\ \A c \in Calls : WF_vars(Finish(c))

Spec == SafetySpec /\ Fairness

-----------------------------------------------------------------------------
(* Properties.                                                             *)

\* The circuit is open exactly while the calls' failures in a row, with no
\* success between them, have reached the threshold, whatever mix of probes,
\* stragglers and rejected calls there was (record_failure, record_success; "a
\* 401 storm ... must not open the circuit"); a disabled breaker never opens.
OpenIffTripped ==
  IF Active THEN Opened(breaker) <=> history.streak >= FailureThreshold
            ELSE breaker = NewBreaker

\* "single-flight" probing (the class docstring): unless a call admitted
\* before the opening has reported a failure since, at most one probe is in
\* flight.  allow() only sees the flag, so this needs the flag to be up
\* whenever a probe is out.
SingleProbeUnlessStraggled ==
  history.straggled \/ (\A c, d \in history.probes : c = d)

\* A raised probe flag belongs to a call that will still report, or to a probe
\* that never did: allow() raises it, and only the two records lower it.
ProbeFlagBacked ==
  breaker.probing => history.probes # {} \/ history.abandoned

\* An open circuit comes to admit a call again once the cooldown is over,
\* except after a probe that ended without reporting.
OpenCircuitAdmitsUnlessAbandoned ==
  Opened(breaker) ~> (Allows(breaker) \/ history.abandoned)

\* The class docstring's form: after reset_seconds "the next request then
\* becomes a HALF_OPEN probe".  It asks nothing of how probes end.
OpenCircuitAdmitsAgain == Opened(breaker) ~> Allows(breaker)

\* Nothing is in flight and the flag is up: the circuit refuses every call.
Wedged ==
  Active /\ Opened(breaker) /\ breaker.probing /\ inFlight = {}

\* A wedged circuit stays wedged: no call can get in to report, and time does
\* not lower the flag.
WedgedForGood == [][Wedged => Wedged']_vars

=============================================================================
