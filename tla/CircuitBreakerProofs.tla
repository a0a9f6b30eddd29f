----------------------- MODULE CircuitBreakerProofs -----------------------
(***************************************************************************)
(* The safety of the circuit breaker, for every set of calls, threshold,   *)
(* cooldown and choice of outcomes.                                        *)
(*                                                                         *)
(* None of the invariants is inductive alone.  OpenIffTripped needs the    *)
(* breaker's own count to agree with the history while the circuit is      *)
(* closed; SingleProbeUnlessStraggled needs the flag to be up while a      *)
(* probe is out; and both need a closed circuit to know no probes.         *)
(***************************************************************************)
EXTENDS CircuitBreaker, TLAPS

\* While the circuit is closed the counts agree and nothing speaks of probes.
ClosedIsClean ==
  ~Opened(breaker) => /\ ~breaker.probing
                      /\ history.probes = {}
                      /\ ~history.straggled
                      /\ Active => history.streak = breaker.failures

\* The flag is up while a probe is out, unless a straggler has lowered it.
ProbeRaisesFlag ==
  history.probes # {} => breaker.probing \/ history.straggled

IInv ==
  /\ TypeOK
  /\ OpenIffTripped
  /\ ClosedIsClean
  /\ ProbeRaisesFlag
  /\ SingleProbeUnlessStraggled
  /\ ProbeFlagBacked

-----------------------------------------------------------------------------
LEMMA InitEstablishesIInv == Init => IInv
BY BreakerAssumption
DEF Init, IInv, TypeOK, OpenIffTripped, ClosedIsClean, ProbeRaisesFlag,
    SingleProbeUnlessStraggled, ProbeFlagBacked, NewBreaker, NoHistory,
    Breaker, History, Opened, NotOpened, Active

LEMMA AdmitPreservesIInv ==
  ASSUME IInv, NEW c \in Calls, Admit(c)
  PROVE  IInv'
<1>1. TypeOK'
  BY BreakerAssumption
  DEF IInv, TypeOK, Admit, Admitted, AfterAdmit, Breaker, History
<1>2. CASE Active /\ Opened(breaker)
  <2>1. /\ breaker' = [breaker EXCEPT !.probing = TRUE]
        /\ history' = [history EXCEPT !.probes = @ \cup {c}]
    BY <1>2 DEF Admit, Admitted, AfterAdmit
  <2>2. ~breaker.probing
    BY <1>2 DEF Admit, Allows
  <2>3. OpenIffTripped' /\ ClosedIsClean' /\ ProbeRaisesFlag' /\ ProbeFlagBacked'
    BY <1>1, <1>2, <2>1
    DEF IInv, TypeOK, Breaker, History, OpenIffTripped, ClosedIsClean,
        ProbeRaisesFlag, ProbeFlagBacked, Opened, Active
  <2>4. SingleProbeUnlessStraggled'
    BY <2>1, <2>2
    DEF IInv, TypeOK, Breaker, History, ProbeRaisesFlag,
        SingleProbeUnlessStraggled
  <2> QED BY <1>1, <2>3, <2>4 DEF IInv
<1>3. CASE ~(Active /\ Opened(breaker))
  <2>1. breaker' = breaker /\ history' = history
    BY <1>3 DEF Admit, Admitted, AfterAdmit
  <2> QED
    BY <1>1, <2>1
    DEF IInv, OpenIffTripped, ClosedIsClean, ProbeRaisesFlag,
        SingleProbeUnlessStraggled, ProbeFlagBacked, Opened
<1> QED BY <1>2, <1>3

LEMMA SucceedPreservesIInv ==
  ASSUME IInv, NEW c \in Calls, Succeed(c)
  PROVE  IInv'
BY BreakerAssumption
DEF IInv, TypeOK, Succeed, OpenIffTripped, ClosedIsClean, ProbeRaisesFlag,
    SingleProbeUnlessStraggled, ProbeFlagBacked, RecordSuccess, NewBreaker,
    NoHistory, Breaker, History, Opened, NotOpened, Active

LEMMA FailPreservesIInv ==
  ASSUME IInv, NEW c \in Calls, Fail(c)
  PROVE  IInv'
<1> USE DEF IInv
<1>0. /\ breaker' = RecordFailure(breaker)
      /\ inFlight' = inFlight \ {c}
      /\ history' = AfterFailure(history, breaker, c)
  BY DEF Fail
<1>1. /\ breaker' = RecordFailure(breaker)
      /\ inFlight' = inFlight \ {c}
      /\ history'.probes = history.probes \ {c}
      /\ history'.straggled
           <=> (history.straggled
                \/ (Active /\ Opened(breaker) /\ c \notin history.probes))
      /\ history'.streak = IF history.streak < FailureThreshold
                           THEN history.streak + 1 ELSE history.streak
      /\ history'.abandoned = FALSE
  BY <1>0 DEF AfterFailure
<1>2. TypeOK'
  <2>1. breaker' \in Breaker
    <3>1. breaker \in Breaker
      BY DEF TypeOK
    <3>2. Reopened(breaker) \in Breaker
      <4>1. ResetSeconds \in (0 .. ResetSeconds) \cup {NotOpened}
        BY BreakerAssumption
      <4> QED BY <3>1, <4>1 DEF Reopened, Breaker
    <3>3. Counted(breaker) \in Breaker
      <4> DEFINE n == breaker.failures + 1
                 cooldown == IF n >= FailureThreshold THEN ResetSeconds
                                                      ELSE NotOpened
      <4>1. n \in Nat /\ cooldown \in (0 .. ResetSeconds) \cup {NotOpened}
        BY <3>1, BreakerAssumption DEF Breaker
      <4>2. Counted(breaker)
              = [breaker EXCEPT !.failures = n, !.cooldown = cooldown]
        BY DEF Counted
      <4> HIDE DEF n, cooldown
      <4> QED BY <3>1, <4>1, <4>2 DEF Breaker
    <3> QED BY <1>0, <3>1, <3>2, <3>3 DEF RecordFailure
  <2>2. history' \in History
    <3>1. /\ history.probes \ {c} \in SUBSET Calls
          /\ (IF history.streak < FailureThreshold
              THEN history.streak + 1 ELSE history.streak) \in Nat
      BY BreakerAssumption DEF TypeOK, History
    <3>2. (history.straggled
             \/ (Active /\ Opened(breaker) /\ c \notin history.probes))
            \in BOOLEAN
      OBVIOUS
    <3> QED BY <1>0, <3>1, <3>2, Zenon DEF AfterFailure, History
  <2>3. history'.probes \subseteq inFlight'
    BY <1>1 DEF TypeOK
  <2> QED BY <1>1, <2>1, <2>2, <2>3 DEF TypeOK
<1>3. CASE ~Active
  <2>1. breaker' = breaker /\ breaker = NewBreaker
    BY <1>1, <1>3 DEF RecordFailure, OpenIffTripped
  <2>2. /\ ~Opened(breaker) /\ ~breaker.probing
        /\ history.probes = {} /\ ~history.straggled
    BY <2>1 DEF NewBreaker, Opened, ClosedIsClean
  <2>3. OpenIffTripped' /\ ClosedIsClean'
    BY <1>1, <1>3, <2>1, <2>2 DEF OpenIffTripped, ClosedIsClean, Opened
  <2>4. ProbeRaisesFlag' /\ SingleProbeUnlessStraggled' /\ ProbeFlagBacked'
    BY <1>1, <2>1, <2>2
    DEF ProbeRaisesFlag, SingleProbeUnlessStraggled, ProbeFlagBacked
  <2> QED BY <1>2, <2>3, <2>4
<1>4. CASE Active /\ Opened(breaker)
  <2>1. breaker' = [breaker EXCEPT !.cooldown = ResetSeconds, !.probing = FALSE]
    BY <1>1, <1>4 DEF RecordFailure, Reopened
  <2>2. Opened(breaker') /\ ~breaker'.probing
    BY <2>1, BreakerAssumption DEF TypeOK, Breaker, Opened, NotOpened
  <2>3. OpenIffTripped'
    BY <1>1, <1>4, <2>2, BreakerAssumption
    DEF OpenIffTripped, Opened, Active, TypeOK, History
  <2>4. ClosedIsClean' /\ ProbeFlagBacked'
    BY <2>2 DEF ClosedIsClean, ProbeFlagBacked
  <2>5. ProbeRaisesFlag' /\ SingleProbeUnlessStraggled'
    BY <1>1, <1>4 DEF ProbeRaisesFlag, SingleProbeUnlessStraggled
  <2> QED BY <1>2, <2>3, <2>4, <2>5
<1>5. CASE Active /\ ~Opened(breaker)
  <2>1. /\ breaker'.failures = breaker.failures + 1
        /\ breaker'.cooldown
             = IF breaker.failures + 1 >= FailureThreshold
               THEN ResetSeconds ELSE NotOpened
        /\ breaker'.probing = breaker.probing
    BY <1>1, <1>5 DEF RecordFailure, Counted, TypeOK, Breaker
  <2>2. /\ ~breaker.probing /\ history.probes = {} /\ ~history.straggled
        /\ history.streak = breaker.failures
        /\ history.streak < FailureThreshold
    BY <1>5, BreakerAssumption
    DEF ClosedIsClean, OpenIffTripped, TypeOK, History, Active
  <2>3. OpenIffTripped' /\ ClosedIsClean'
    BY <1>1, <1>5, <2>1, <2>2, BreakerAssumption
    DEF OpenIffTripped, ClosedIsClean, Opened, NotOpened, Active, TypeOK,
        Breaker, History
  <2>4. ProbeRaisesFlag' /\ SingleProbeUnlessStraggled' /\ ProbeFlagBacked'
    BY <1>1, <2>1, <2>2
    DEF ProbeRaisesFlag, SingleProbeUnlessStraggled, ProbeFlagBacked
  <2> QED BY <1>2, <2>3, <2>4
<1> QED BY <1>3, <1>4, <1>5

LEMMA RejectPreservesIInv ==
  ASSUME IInv, NEW c \in Calls, Reject(c)
  PROVE  IInv'
<1> USE DEF IInv
<1>1. /\ breaker' = breaker
      /\ history' = [history EXCEPT !.probes = @ \ {c},
                                    !.abandoned = @ \/ c \in history.probes]
      /\ inFlight' = inFlight \ {c}
  BY DEF Reject, AfterRejection
<1>2. TypeOK'
  BY <1>1 DEF TypeOK, History
<1>3. /\ history'.probes = history.probes \ {c}
      /\ history'.straggled = history.straggled
      /\ history'.streak = history.streak
      /\ history'.abandoned = (history.abandoned \/ c \in history.probes)
  BY <1>1 DEF TypeOK, History
<1>4. OpenIffTripped' /\ ClosedIsClean'
  BY <1>1, <1>3 DEF OpenIffTripped, ClosedIsClean, Opened
<1>5. ProbeRaisesFlag' /\ SingleProbeUnlessStraggled' /\ ProbeFlagBacked'
  BY <1>1, <1>3 DEF ProbeRaisesFlag, SingleProbeUnlessStraggled, ProbeFlagBacked
<1> QED BY <1>2, <1>4, <1>5

LEMMA TickPreservesIInv == IInv /\ Tick => IInv'
<1> SUFFICES ASSUME IInv, Tick PROVE IInv'
  OBVIOUS
<1> USE DEF IInv
<1>1. /\ breaker.cooldown > 0
      /\ breaker' = [breaker EXCEPT !.cooldown = @ - 1]
      /\ history' = history /\ inFlight' = inFlight
  BY DEF Tick, Elapse
<1>2. TypeOK'
  BY <1>1, BreakerAssumption DEF TypeOK, Breaker, NotOpened
<1>3. /\ Opened(breaker) /\ Opened(breaker')
      /\ breaker'.probing = breaker.probing
  BY <1>1, BreakerAssumption DEF TypeOK, Breaker, Opened, NotOpened
<1>4. OpenIffTripped'
  BY <1>1, <1>3 DEF OpenIffTripped, NewBreaker, Opened
<1> QED
  BY <1>1, <1>2, <1>3, <1>4
  DEF ClosedIsClean, ProbeRaisesFlag, SingleProbeUnlessStraggled,
      ProbeFlagBacked

LEMMA NextPreservesIInv == IInv /\ [Next]_vars => IInv'
<1> SUFFICES ASSUME IInv, [Next]_vars PROVE IInv'
  OBVIOUS
<1>1. CASE Tick
  BY <1>1, TickPreservesIInv
<1>2. ASSUME NEW c \in Calls, Admit(c) PROVE IInv'
  BY <1>2, AdmitPreservesIInv
<1>3. ASSUME NEW c \in Calls, Succeed(c) PROVE IInv'
  BY <1>3, SucceedPreservesIInv
<1>4. ASSUME NEW c \in Calls, Fail(c) PROVE IInv'
  BY <1>4, FailPreservesIInv
<1>5. ASSUME NEW c \in Calls, Reject(c) PROVE IInv'
  BY <1>5, RejectPreservesIInv
<1>6. CASE UNCHANGED vars
  BY <1>6
  DEF vars, IInv, TypeOK, OpenIffTripped, ClosedIsClean, ProbeRaisesFlag,
      SingleProbeUnlessStraggled, ProbeFlagBacked, Opened
<1> QED
  BY <1>1, <1>2, <1>3, <1>4, <1>5, <1>6 DEF Next, Finish, Refuse

-----------------------------------------------------------------------------
\* The inductive invariant holds in every reachable state.
THEOREM Invariance == SafetySpec => []IInv
BY InitEstablishesIInv, NextPreservesIInv, PTL DEF SafetySpec

\* The breaker, the calls and the history keep their types.
THEOREM TypeCorrect == SafetySpec => []TypeOK
<1>1. IInv => TypeOK
  BY DEF IInv
<1> QED BY <1>1, Invariance, PTL

\* The circuit is open exactly while the failures in a row have reached the
\* threshold, however calls overlap and end.
THEOREM OpensExactlyWhenTripped == SafetySpec => []OpenIffTripped
<1>1. IInv => OpenIffTripped
  BY DEF IInv
<1> QED BY <1>1, Invariance, PTL

\* Without a straggler's failure, no two probes are upstream at once.
THEOREM ProbesAreSingle == SafetySpec => []SingleProbeUnlessStraggled
<1>1. IInv => SingleProbeUnlessStraggled
  BY DEF IInv
<1> QED BY <1>1, Invariance, PTL

\* The probe flag is up only for a probe that is out, or for one that ended
\* without reporting.
THEOREM FlagIsBacked == SafetySpec => []ProbeFlagBacked
<1>1. IInv => ProbeFlagBacked
  BY DEF IInv
<1> QED BY <1>1, Invariance, PTL

\* Once nothing is in flight and the flag is up, no step of the program ever
\* lets a call through again.
THEOREM WedgeIsPermanent == SafetySpec => WedgedForGood
<1>1. IInv /\ [Next]_vars => (Wedged => Wedged')
  <2> SUFFICES ASSUME IInv, [Next]_vars, Wedged PROVE Wedged'
    OBVIOUS
  <2>1. CASE Tick
    BY <2>1, BreakerAssumption
    DEF IInv, TypeOK, Breaker, Tick, Elapse, Wedged, Opened, NotOpened
  <2>2. ASSUME NEW c \in Calls, Admit(c) PROVE FALSE
    BY <2>2 DEF Admit, Allows, Wedged
  <2>3. ASSUME NEW c \in Calls, Finish(c) PROVE FALSE
    BY <2>3 DEF Finish, Succeed, Fail, Reject, Wedged
  <2>4. CASE UNCHANGED vars
    BY <2>4 DEF vars, Wedged, Opened
  <2> QED BY <2>1, <2>2, <2>3, <2>4 DEF Next, Refuse
<1> QED BY <1>1, Invariance, PTL DEF SafetySpec, WedgedForGood

=============================================================================
