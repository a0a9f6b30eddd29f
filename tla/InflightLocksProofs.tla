------------------------ MODULE InflightLocksProofs ------------------------
(***************************************************************************)
(* The stampede locks, for every set of requests and keys.                 *)
(*                                                                         *)
(* RegistryExact is not inductive alone: that a request which has not come *)
(* in finds its own lock untouched, and that a creator never waits for its *)
(* own lock, must be known as well.                                        *)
(***************************************************************************)
EXTENDS InflightLocks, TLAPS

\* A request holds no lock but its own variable's, of its own key.
HoldersSound ==
  \A l, r \in Requests :
    holder[l] = r => lockOf[r] = l /\ keyOf[r] = keyOf[l]

\* A request waits in one queue at most, once, and only for a lock of its own
\* key that it does not hold.
QueuesSound ==
  \A l \in Requests : \A i \in DOMAIN waiters[l] :
    LET r == waiters[l][i]
    IN  /\ lockOf[r] = l /\ keyOf[r] = keyOf[l]
        /\ holder[l] # r
        /\ \A j \in DOMAIN waiters[l] : waiters[l][j] = r => j = i

\* A lock is in use only once its creator has come in and registered it.
UsedLocksCreated ==
  \A l \in Requests :
    holder[l] # None \/ waiters[l] # <<>> => lockOf[l] = l

\* The two local variables are set together.
VariablesTogether ==
  \A r \in Requests : lockOf[r] = None <=> keyOf[r] = None

\* A creator takes its lock without waiting.
CreatorsNeverWait ==
  \A l \in Requests : \A i \in DOMAIN waiters[l] : waiters[l][i] # l

LInv ==
  /\ TypeOKLocks
  /\ RegistryExact
  /\ QueuesSound
  /\ HoldersSound
  /\ UsedLocksCreated
  /\ VariablesTogether
  /\ CreatorsNeverWait

-----------------------------------------------------------------------------
LEMMA InitEstablishesLInv == InitLocks => LInv
BY LocksAssumption
DEF InitLocks, LInv, TypeOKLocks, RegistryExact, QueuesSound, HoldersSound,
    UsedLocksCreated, VariablesTogether, CreatorsNeverWait

\* A newcomer that registers a lock of its own, and takes it.
LEMMA EnterNewPreservesLInv ==
  ASSUME LInv,
         NEW r \in Requests, NEW k \in Keys, Enter(r, k), registry[k] = None
  PROVE  /\ LInv'
         /\ holder'[lockOf'[r]] = r
<1> USE LocksAssumption
<1>1. holder[r] = None /\ waiters[r] = <<>>
  BY DEF LInv, Enter, UsedLocksCreated
<1>2. /\ registry' = [registry EXCEPT ![k] = r]
      /\ lockOf' = [lockOf EXCEPT ![r] = r]
      /\ keyOf' = [keyOf EXCEPT ![r] = k]
      /\ holder' = [holder EXCEPT ![r] = r]
      /\ waiters' = waiters
      /\ lockOf[r] = None
  BY <1>1 DEF Enter, Registered, Free
<1>3. TypeOKLocks'
  BY <1>2 DEF LInv, TypeOKLocks
<1>4. \A l \in Requests : holder[l] # r
  BY <1>2 DEF LInv, HoldersSound
<1>5. \A l \in Requests : \A i \in DOMAIN waiters[l] : waiters[l][i] # r
  BY <1>2 DEF LInv, QueuesSound
<1>6. RegistryExact'
  BY <1>1, <1>2 DEF LInv, TypeOKLocks, RegistryExact
<1>7. QueuesSound'
  BY <1>1, <1>2, <1>5 DEF LInv, TypeOKLocks, QueuesSound
<1>8. HoldersSound'
  BY <1>1, <1>2, <1>4 DEF LInv, TypeOKLocks, HoldersSound, UsedLocksCreated
<1>9. UsedLocksCreated' /\ VariablesTogether' /\ CreatorsNeverWait'
  BY <1>1, <1>2
  DEF LInv, TypeOKLocks, UsedLocksCreated, VariablesTogether, CreatorsNeverWait
<1> QED
  BY <1>2, <1>3, <1>6, <1>7, <1>8, <1>9 DEF LInv, TypeOKLocks

\* A newcomer that finds a lock, and queues behind its creator.
LEMMA EnterQueuePreservesLInv ==
  ASSUME LInv,
         NEW r \in Requests, NEW k \in Keys, Enter(r, k), registry[k] # None
  PROVE  /\ LInv'
         /\ holder'[lockOf'[r]] # r
<1> USE LocksAssumption
<1> DEFINE l == registry[k]
<1>1. l \in Requests /\ holder[l] = l /\ keyOf[l] = k
  BY DEF LInv, TypeOKLocks, RegistryExact
<1>2. /\ registry' = registry
      /\ lockOf' = [lockOf EXCEPT ![r] = l]
      /\ keyOf' = [keyOf EXCEPT ![r] = k]
      /\ holder' = holder
      /\ waiters' = [waiters EXCEPT ![l] = Append(@, r)]
      /\ lockOf[r] = None
  BY <1>1 DEF Enter, Registered, Free, LInv, TypeOKLocks
<1> HIDE DEF l
<1>3. keyOf[r] = None /\ l # r
  BY <1>1, <1>2 DEF LInv, VariablesTogether
<1>4. TypeOKLocks'
  BY <1>1, <1>2 DEF LInv, TypeOKLocks
<1>5. \A m \in Requests : holder[m] # r
  BY <1>2 DEF LInv, HoldersSound
<1>6. \A m \in Requests : \A i \in DOMAIN waiters[m] : waiters[m][i] # r
  BY <1>2 DEF LInv, QueuesSound
<1>7. /\ waiters[l] \in Seq(Requests)
      /\ waiters'[l] = Append(waiters[l], r)
      /\ \A m \in Requests \ {l} : waiters'[m] = waiters[m]
  BY <1>1, <1>2 DEF LInv, TypeOKLocks
<1>8. RegistryExact'
  BY <1>2, <1>5 DEF LInv, TypeOKLocks, RegistryExact
<1>9. QueuesSound'
  <2> SUFFICES ASSUME NEW m \in Requests, NEW i \in DOMAIN waiters'[m]
               PROVE  /\ lockOf'[waiters'[m][i]] = m
                      /\ keyOf'[waiters'[m][i]] = keyOf'[m]
                      /\ holder'[m] # waiters'[m][i]
                      /\ \A j \in DOMAIN waiters'[m] :
                           waiters'[m][j] = waiters'[m][i] => j = i
    BY DEF QueuesSound
  <2>1. CASE m # l
    <3>1. m # r \/ waiters[m] = <<>>
      BY <1>2, <1>3 DEF LInv, UsedLocksCreated
    <3>2. i \in DOMAIN waiters[m] /\ m # r
      BY <2>1, <1>7, <3>1
    <3> QED
      BY <2>1, <1>2, <1>6, <1>7, <3>2 DEF LInv, TypeOKLocks, QueuesSound
  <2>2. CASE m = l /\ i = Len(waiters[l]) + 1
    <3>1. waiters'[m][i] = r
      BY <2>2, <1>7
    <3>2. \A j \in DOMAIN waiters'[m] : waiters'[m][j] = r => j = i
      BY <2>2, <1>6, <1>7, <1>1
    <3> QED
      BY <2>2, <1>1, <1>2, <1>3, <1>5, <3>1, <3>2 DEF LInv, TypeOKLocks
  <2>3. CASE m = l /\ i \in DOMAIN waiters[l]
    <3>1. waiters'[m][i] = waiters[l][i] /\ waiters[l][i] \in Requests
      BY <2>3, <1>7
    <3>2. \A j \in DOMAIN waiters'[m] :
            waiters'[m][j] = waiters'[m][i] => j = i
      BY <2>3, <1>1, <1>6, <1>7, <3>1 DEF LInv, QueuesSound
    <3> QED
      BY <2>3, <1>1, <1>2, <1>3, <1>6, <3>1, <3>2
      DEF LInv, TypeOKLocks, QueuesSound
  <2>4. m = l => i \in DOMAIN waiters[l] \/ i = Len(waiters[l]) + 1
    BY <1>7
  <2> QED BY <2>1, <2>2, <2>3, <2>4
<1>10. HoldersSound'
  <2>1. holder[r] = None
    BY <1>2, <1>3 DEF LInv, TypeOKLocks, UsedLocksCreated
  <2> QED
    BY <1>2, <1>5, <2>1 DEF LInv, TypeOKLocks, HoldersSound
<1>11. UsedLocksCreated'
  BY <1>1, <1>2, <1>7 DEF LInv, TypeOKLocks, UsedLocksCreated
<1>12. VariablesTogether'
  BY <1>1, <1>2 DEF LInv, TypeOKLocks, VariablesTogether
<1>13. CreatorsNeverWait'
  BY <1>1, <1>3, <1>7 DEF LInv, CreatorsNeverWait
<1>14. holder'[lockOf'[r]] # r
  BY <1>1, <1>2, <1>3 DEF LInv, TypeOKLocks
<1> QED
  BY <1>4, <1>8, <1>9, <1>10, <1>11, <1>12, <1>13, <1>14 DEF LInv

LEMMA EnterPreservesLInv ==
  ASSUME LInv,
         NEW r \in Requests, NEW k \in Keys, Enter(r, k)
  PROVE  LInv'
BY EnterNewPreservesLInv, EnterQueuePreservesLInv

LEMMA ResumePreservesLInv ==
  ASSUME LInv, NEW r \in Requests, Resume(r)
  PROVE  LInv'
<1> USE LocksAssumption
<1> DEFINE l == lockOf[r]
<1>1. /\ l \in Requests /\ holder[l] = None
      /\ waiters[l] \in Seq(Requests) /\ waiters[l] # <<>>
      /\ r = waiters[l][1] /\ 1 \in DOMAIN waiters[l]
      /\ holder' = [holder EXCEPT ![l] = r]
      /\ waiters' = [waiters EXCEPT ![l] = Tail(@)]
      /\ registry' = registry /\ lockOf' = lockOf /\ keyOf' = keyOf
  BY DEF Resume, LInv, TypeOKLocks
<1> HIDE DEF l
<1>2. /\ keyOf[r] = keyOf[l] /\ lockOf[r] = l /\ r # l
      /\ \A i \in DOMAIN waiters[l] : waiters[l][i] = r => i = 1
  BY <1>1 DEF LInv, QueuesSound, CreatorsNeverWait
<1>3. /\ DOMAIN waiters'[l] = 1 .. Len(waiters[l]) - 1
      /\ \A i \in DOMAIN waiters'[l] : /\ i + 1 \in DOMAIN waiters[l]
                                       /\ i + 1 # 1
                                       /\ waiters'[l][i] = waiters[l][i + 1]
      /\ \A m \in Requests \ {l} : waiters'[m] = waiters[m]
  BY <1>1 DEF LInv, TypeOKLocks
<1>4. TypeOKLocks'
  BY <1>1 DEF LInv, TypeOKLocks
<1>5. RegistryExact'
  BY <1>1, <1>2 DEF LInv, TypeOKLocks, RegistryExact
<1>6. QueuesSound'
  <2> SUFFICES ASSUME NEW m \in Requests, NEW i \in DOMAIN waiters'[m]
               PROVE  /\ lockOf'[waiters'[m][i]] = m
                      /\ keyOf'[waiters'[m][i]] = keyOf'[m]
                      /\ holder'[m] # waiters'[m][i]
                      /\ \A j \in DOMAIN waiters'[m] :
                           waiters'[m][j] = waiters'[m][i] => j = i
    BY DEF QueuesSound
  <2>1. CASE m # l
    BY <2>1, <1>1, <1>3 DEF LInv, TypeOKLocks, QueuesSound
  <2>2. CASE m = l
    <3>1. /\ i + 1 \in DOMAIN waiters[l] /\ waiters'[l][i] = waiters[l][i + 1]
          /\ waiters[l][i + 1] # r
      BY <2>2, <1>2, <1>3
    <3>2. \A j \in DOMAIN waiters'[l] :
            waiters'[l][j] = waiters'[l][i] => j + 1 = i + 1
      BY <3>1, <1>1, <1>3 DEF LInv, QueuesSound
    <3>3. i \in Nat /\ DOMAIN waiters'[l] \subseteq Nat
      BY <2>2, <1>1, <1>3
    <3> QED
      BY <2>2, <1>1, <3>1, <3>2, <3>3 DEF LInv, TypeOKLocks, QueuesSound
  <2> QED BY <2>1, <2>2
<1>7. HoldersSound'
  BY <1>1, <1>2 DEF LInv, TypeOKLocks, HoldersSound
<1>8. UsedLocksCreated'
  BY <1>1, <1>3 DEF LInv, TypeOKLocks, UsedLocksCreated
<1>9. VariablesTogether'
  BY <1>1 DEF LInv, VariablesTogether
<1>10. CreatorsNeverWait'
  BY <1>1, <1>3 DEF LInv, CreatorsNeverWait
<1> QED BY <1>4, <1>5, <1>6, <1>7, <1>8, <1>9, <1>10 DEF LInv

LEMMA LeavePreservesLInv ==
  ASSUME LInv, NEW r \in Requests, Leave(r)
  PROVE  LInv'
<1> USE LocksAssumption
<1> DEFINE l == lockOf[r]
<1>1. /\ l \in Requests /\ holder[l] = r
      /\ holder' = [holder EXCEPT ![l] = None]
      /\ registry' = IF registry[keyOf[r]] = l
                     THEN [registry EXCEPT ![keyOf[r]] = None] ELSE registry
      /\ lockOf' = lockOf /\ keyOf' = keyOf /\ waiters' = waiters
  BY DEF Leave, Holding, Unregistered, LInv, TypeOKLocks
<1> HIDE DEF l
<1>2. keyOf[r] \in Keys /\ keyOf[r] = keyOf[l] /\ lockOf[r] = l
  BY <1>1 DEF LInv, TypeOKLocks, HoldersSound, VariablesTogether
<1>3. TypeOKLocks'
  BY <1>1, <1>2 DEF LInv, TypeOKLocks
<1>4. RegistryExact'
  <2> SUFFICES ASSUME NEW k \in Keys, NEW m \in Requests
               PROVE  registry'[k] = m <=> holder'[m] = m /\ keyOf'[m] = k
    BY DEF RegistryExact
  <2>1. CASE m # l
    BY <2>1, <1>1, <1>2 DEF LInv, TypeOKLocks, RegistryExact
  <2>2. CASE m = l
    BY <2>2, <1>1, <1>2 DEF LInv, TypeOKLocks, RegistryExact
  <2> QED BY <2>1, <2>2
<1>5. QueuesSound'
  BY <1>1 DEF LInv, TypeOKLocks, QueuesSound
<1>6. HoldersSound' /\ UsedLocksCreated' /\ VariablesTogether' /\ CreatorsNeverWait'
  BY <1>1
  DEF LInv, TypeOKLocks, HoldersSound, UsedLocksCreated, VariablesTogether,
      CreatorsNeverWait
<1> QED BY <1>3, <1>4, <1>5, <1>6 DEF LInv

-----------------------------------------------------------------------------
(* What an operation does to who is inside a lock, and who waits for one.  *)

Queued(r) ==
  /\ lockOf[r] \in Requests
  /\ \E i \in DOMAIN waiters[lockOf[r]] : waiters[lockOf[r]][i] = r

\* Whoever is not r stays inside its lock, or outside, and in its queue.
OthersStay(r) ==
  \A s \in Requests \ {r} :
    /\ lockOf'[s] = lockOf[s]
    /\ Holding(s)' <=> Holding(s)
    /\ Queued(s) => Queued(s)'

LEMMA EnterMoves ==
  ASSUME LInv, NEW r \in Requests, NEW k \in Keys, Enter(r, k)
  PROVE  /\ OthersStay(r)
         /\ lockOf'[r] \in Requests
         /\ holder'[lockOf'[r]] = r => Holding(r)'
         /\ holder'[lockOf'[r]] # r => ~Holding(r)' /\ Queued(r)'
<1> USE LocksAssumption
<1> DEFINE l == Registered(r, k)
<1>1. l \in Requests
  BY DEF LInv, TypeOKLocks, Registered
<1>2. /\ lockOf[r] = None
      /\ lockOf' = [lockOf EXCEPT ![r] = l]
      /\ \/ /\ Free(l)
            /\ holder' = [holder EXCEPT ![l] = r]
            /\ waiters' = waiters
         \/ /\ ~Free(l)
            /\ holder' = holder
            /\ waiters' = [waiters EXCEPT ![l] = Append(@, r)]
  BY DEF Enter
<1> HIDE DEF l
<1>3. lockOf'[r] = l /\ \A s \in Requests \ {r} : lockOf'[s] = lockOf[s]
  BY <1>2 DEF LInv, TypeOKLocks
<1>4. \A m \in Requests : holder[m] # r
  BY <1>2 DEF LInv, HoldersSound
<1>5. CASE Free(l) /\ holder' = [holder EXCEPT ![l] = r] /\ waiters' = waiters
  <2>1. holder'[l] = r
    BY <1>1, <1>5 DEF LInv, TypeOKLocks
  <2>2. ASSUME NEW s \in Requests \ {r}
        PROVE  Holding(s)' <=> Holding(s)
    BY <1>1, <1>3, <1>5 DEF Holding, Free, LInv, TypeOKLocks
  <2>3. ASSUME NEW s \in Requests \ {r}, Queued(s)
        PROVE  Queued(s)'
    BY <1>3, <1>5, <2>3 DEF Queued
  <2>4. Holding(r)'
    BY <1>1, <1>3, <2>1 DEF Holding
  <2> QED BY <1>1, <1>3, <2>1, <2>2, <2>3, <2>4 DEF OthersStay
<1>6. CASE /\ ~Free(l) /\ holder' = holder
           /\ waiters' = [waiters EXCEPT ![l] = Append(@, r)]
  <2>1. holder'[l] # r
    BY <1>1, <1>4, <1>6
  <2>2. /\ waiters[l] \in Seq(Requests)
        /\ waiters'[l] = Append(waiters[l], r)
        /\ \A m \in Requests \ {l} : waiters'[m] = waiters[m]
    BY <1>1, <1>6 DEF LInv, TypeOKLocks
  <2>3. ASSUME NEW s \in Requests \ {r}
        PROVE  Holding(s)' <=> Holding(s)
    BY <1>3, <1>6 DEF Holding
  <2>4. ASSUME NEW s \in Requests \ {r}, Queued(s)
        PROVE  Queued(s)'
    <3>1. PICK i \in DOMAIN waiters[lockOf[s]] : waiters[lockOf[s]][i] = s
      BY <2>4 DEF Queued
    <3>2. /\ i \in DOMAIN waiters'[lockOf[s]]
          /\ waiters'[lockOf[s]][i] = s
      BY <2>2, <2>4, <3>1 DEF Queued
    <3> QED BY <1>3, <2>4, <3>2 DEF Queued
  <2>5. ~Holding(r)'
    BY <1>3, <2>1 DEF Holding
  <2>6. Queued(r)'
    <3>1. /\ Len(waiters[l]) + 1 \in DOMAIN waiters'[l]
          /\ waiters'[l][Len(waiters[l]) + 1] = r
      BY <2>2
    <3> QED BY <1>1, <1>3, <3>1 DEF Queued
  <2> QED BY <1>1, <1>3, <2>1, <2>3, <2>4, <2>5, <2>6 DEF OthersStay
<1> QED BY <1>2, <1>5, <1>6

LEMMA ResumeMoves ==
  ASSUME LInv, NEW r \in Requests, Resume(r)
  PROVE  OthersStay(r) /\ Holding(r)' /\ lockOf' = lockOf
<1> USE LocksAssumption
<1> DEFINE l == lockOf[r]
<1>1. /\ l \in Requests /\ holder[l] = None
      /\ waiters[l] \in Seq(Requests) /\ waiters[l] # <<>>
      /\ r = waiters[l][1]
      /\ holder' = [holder EXCEPT ![l] = r]
      /\ waiters' = [waiters EXCEPT ![l] = Tail(@)]
      /\ lockOf' = lockOf
  BY DEF Resume, LInv, TypeOKLocks
<1> HIDE DEF l
<1>2. lockOf[r] = l
  BY DEF l
<1>3. Holding(r)'
  BY <1>1, <1>2 DEF Holding, LInv, TypeOKLocks
<1>4. ASSUME NEW s \in Requests \ {r}
      PROVE  Holding(s)' <=> Holding(s)
  BY <1>1, <1>2 DEF Holding, LInv, TypeOKLocks
<1>5. ASSUME NEW s \in Requests \ {r}, Queued(s)
      PROVE  Queued(s)'
  <2>1. PICK i \in DOMAIN waiters[lockOf[s]] : waiters[lockOf[s]][i] = s
    BY <1>5 DEF Queued
  <2>2. CASE lockOf[s] = l
    <3>1. i # 1 /\ i \in 1 .. Len(waiters[l])
      BY <1>1, <2>1, <2>2
    <3>2. /\ i - 1 \in DOMAIN Tail(waiters[l])
          /\ Tail(waiters[l])[i - 1] = waiters[l][i]
      BY <1>1, <3>1
    <3>3. waiters'[l] = Tail(waiters[l])
      BY <1>1 DEF LInv, TypeOKLocks
    <3> QED BY <1>1, <1>5, <2>1, <2>2, <3>2, <3>3 DEF Queued
  <2>3. CASE lockOf[s] # l
    <3>1. waiters'[lockOf[s]] = waiters[lockOf[s]]
      BY <1>1, <1>5, <2>3 DEF Queued, LInv, TypeOKLocks
    <3> QED BY <1>1, <1>5, <2>1, <3>1 DEF Queued
  <2> QED BY <2>2, <2>3
<1> QED BY <1>1, <1>3, <1>4, <1>5 DEF OthersStay

LEMMA LeaveMoves ==
  ASSUME LInv, NEW r \in Requests, Leave(r)
  PROVE  OthersStay(r) /\ ~Holding(r)' /\ lockOf' = lockOf
<1> USE LocksAssumption
<1>1. /\ lockOf[r] \in Requests /\ holder[lockOf[r]] = r
      /\ holder' = [holder EXCEPT ![lockOf[r]] = None]
      /\ lockOf' = lockOf /\ waiters' = waiters
  BY DEF Leave, Holding, LInv, TypeOKLocks
<1>2. ~Holding(r)'
  BY <1>1 DEF Holding, LInv, TypeOKLocks
<1>3. ASSUME NEW s \in Requests \ {r}
      PROVE  Holding(s)' <=> Holding(s)
  BY <1>1 DEF Holding, LInv, TypeOKLocks
<1>4. ASSUME NEW s \in Requests \ {r}, Queued(s)
      PROVE  Queued(s)'
  BY <1>1, <1>4 DEF Queued
<1> QED BY <1>1, <1>2, <1>3, <1>4 DEF OthersStay

LEMMA LocksStay ==
  ASSUME NEW r \in Requests, UNCHANGED locks
  PROVE  OthersStay(r) /\ (Holding(r)' <=> Holding(r)) /\ (Queued(r) => Queued(r)')
BY DEF locks, OthersStay, Holding, Queued

LEMMA StutterPreservesLInv == LInv /\ UNCHANGED locks => LInv'
BY DEF locks, LInv, TypeOKLocks, RegistryExact, QueuesSound, HoldersSound,
       UsedLocksCreated, VariablesTogether, CreatorsNeverWait

LEMMA NextPreservesLInv == LInv /\ [NextLocks]_locks => LInv'
<1> SUFFICES ASSUME LInv, [NextLocks]_locks PROVE LInv'
  OBVIOUS
<1>1. ASSUME NEW r \in Requests, Resume(r) PROVE LInv'
  BY <1>1, ResumePreservesLInv
<1>2. ASSUME NEW r \in Requests, Leave(r) PROVE LInv'
  BY <1>2, LeavePreservesLInv
<1>3. ASSUME NEW r \in Requests, NEW k \in Keys, Enter(r, k) PROVE LInv'
  BY <1>3, EnterPreservesLInv
<1> QED BY <1>1, <1>2, <1>3, StutterPreservesLInv DEF NextLocks

-----------------------------------------------------------------------------
\* The inductive invariant holds whatever requests come, wait and leave.
THEOREM LocksInvariance == LocksSpec => []LInv
BY InitEstablishesLInv, NextPreservesLInv, PTL DEF LocksSpec

\* The registry holds exactly the locks whose creators are inside them.
THEOREM RegistryIsExact == LocksSpec => []RegistryExact
<1>1. LInv => RegistryExact
  BY DEF LInv
<1> QED BY <1>1, LocksInvariance, PTL

\* Nobody queues twice, for another key's lock, or for a lock it holds.
THEOREM QueuesAreSound == LocksSpec => []QueuesSound
<1>1. LInv => QueuesSound
  BY DEF LInv
<1> QED BY <1>1, LocksInvariance, PTL

=============================================================================
