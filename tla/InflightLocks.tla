--------------------------- MODULE InflightLocks ---------------------------
(***************************************************************************)
(* The stampede guard of routes/chat.py: _inflight_locks, a dict from the  *)
(* hash of a request's messages and model to an asyncio.Lock, and the      *)
(* coroutines that create, wait for, hold and drop those locks.            *)
(*                                                                         *)
(* setdefault() is always handed a fresh Lock, so a lock is named after    *)
(* the request that made it; the locks that lose against a registered one  *)
(* are garbage at once and never seen here.  A request passes through the  *)
(* guard at most once.                                                     *)
(*                                                                         *)
(* asyncio.Lock (external): acquire() takes a free lock that nobody waits  *)
(* for without suspending, else it joins the queue; release() frees the    *)
(* lock and schedules the first waiter, which takes it when it is resumed. *)
(***************************************************************************)
EXTENDS Naturals, Sequences

CONSTANTS Requests, Keys, None

ASSUME LocksAssumption == None \notin Requests \cup Keys

VARIABLES
  registry,  \* _inflight_locks: Keys -> the registered lock, or None
  lockOf,    \* the local variable "lock" of a request, None before it is set
  keyOf,     \* its local variable "key"
  holder,    \* lock -> the request inside "async with lock", or None
  waiters    \* lock -> the requests suspended in acquire(), first in first out

locks == <<registry, lockOf, keyOf, holder, waiters>>

TypeOKLocks ==
  /\ registry \in [Keys -> Requests \cup {None}]
  /\ lockOf \in [Requests -> Requests \cup {None}]
  /\ keyOf \in [Requests -> Keys \cup {None}]
  /\ holder \in [Requests -> Requests \cup {None}]
  /\ waiters \in [Requests -> Seq(Requests)]

Holding(r) == lockOf[r] # None /\ holder[lockOf[r]] = r

-----------------------------------------------------------------------------
InitLocks ==
  /\ registry = [k \in Keys |-> None]
  /\ lockOf = [r \in Requests |-> None]
  /\ keyOf = [r \in Requests |-> None]
  /\ holder = [l \in Requests |-> None]
  /\ waiters = [l \in Requests |-> <<>>]

\* _inflight_locks.setdefault(key, asyncio.Lock())
Registered(r, k) == IF registry[k] = None THEN r ELSE registry[k]

Free(l) == holder[l] = None /\ waiters[l] = <<>>

\* setdefault and the start of acquire(), up to where it may suspend.
Enter(r, k) ==
  LET l == Registered(r, k)
  IN  /\ lockOf[r] = None
      /\ registry' = [registry EXCEPT ![k] = l]
      /\ lockOf' = [lockOf EXCEPT ![r] = l]
      /\ keyOf' = [keyOf EXCEPT ![r] = k]
      /\ IF Free(l)
         THEN /\ holder' = [holder EXCEPT ![l] = r]
              /\ UNCHANGED waiters
         ELSE /\ waiters' = [waiters EXCEPT ![l] = Append(@, r)]
              /\ UNCHANGED holder

\* The first waiter of a free lock is resumed inside acquire() and takes it.
Resume(r) ==
  LET l == lockOf[r]
  IN  /\ l # None
      /\ holder[l] = None
      /\ waiters[l] # <<>> /\ Head(waiters[l]) = r
      /\ holder' = [holder EXCEPT ![l] = r]
      /\ waiters' = [waiters EXCEPT ![l] = Tail(@)]
      /\ UNCHANGED <<registry, lockOf, keyOf>>

\* Fault: the entry is deleted whoever registered it.
UnregisteredAlways(l, k) == [registry EXCEPT ![k] = None]

\* "if _inflight_locks.get(key) is lock: del _inflight_locks[key]"
Unregistered(l, k) ==
  IF registry[k] = l THEN [registry EXCEPT ![k] = None] ELSE registry

\* The end of "async with lock" and the finally block, on every way out.
Leave(r) ==
  /\ Holding(r)
  /\ holder' = [holder EXCEPT ![lockOf[r]] = None]
  /\ registry' = Unregistered(lockOf[r], keyOf[r])
  /\ UNCHANGED <<lockOf, keyOf, waiters>>

NextLocks ==
  \E r \in Requests : Resume(r) \/ Leave(r) \/ \E k \in Keys : Enter(r, k)

LocksSpec == InitLocks /\ [][NextLocks]_locks

-----------------------------------------------------------------------------
(* Properties.                                                             *)

\* The registry holds exactly the locks whose creators are inside them: the
\* dict drains whatever way requests end ("the dict can't grow without
\* bound"), a newcomer finds the lock of a request that is still working, and
\* no request removes a lock another one registered.
RegistryExact ==
  \A k \in Keys, l \in Requests :
    registry[k] = l <=> holder[l] = l /\ keyOf[l] = k

=============================================================================
