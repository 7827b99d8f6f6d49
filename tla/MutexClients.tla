---------------------------- MODULE MutexClients ----------------------------
(***************************************************************************)
(* Concurrent callers of Mutex.lock().  The module keeps apart the step in *)
(* which the leaving caller resolves the promise of the next one (it is    *)
(* "woken") and the later microtask in which that caller resumes; between  *)
(* the two any other caller may call lock().                               *)
(***************************************************************************)
EXTENDS Mutex

CONSTANT Clients

VARIABLES mutex,   \* isLocked and the deferrer's queue
          pc       \* where each caller is in lock()

lockVars == <<mutex, pc>>

PCs == {"idle", "sleeping", "woken", "critical"}

LockTypeOK ==
    /\ mutex \in [locked : BOOLEAN, waiters : Seq(Clients)]
    /\ pc \in [Clients -> PCs]

LockInit ==
    /\ mutex = FreeMutex
    /\ pc = [c \in Clients |-> "idle"]

\* lock() runs synchronously up to its first await.
CallLock(c) ==
    /\ pc[c] = "idle"
    /\ mutex' = Lock(mutex, c)
    /\ pc' = [pc EXCEPT ![c] = IF mutex.locked THEN "sleeping" ELSE "critical"]

\* A woken caller continues after its sleep and assigns isLocked = true.
Resume(c) ==
    /\ pc[c] = "woken"
    /\ mutex' = [mutex EXCEPT !.locked = TRUE]
    /\ pc' = [pc EXCEPT ![c] = "critical"]

\* execute() settles, normally or with an error, and the finally block runs.
Leave(c) ==
    /\ pc[c] = "critical"
    /\ mutex' = Unlock(mutex)
    /\ pc' = [d \in Clients |-> IF d \in WokenByUnlock(mutex) THEN "woken"
                                ELSE IF d = c THEN "idle" ELSE pc[d]]

LockNext == \E c \in Clients : CallLock(c) \/ Resume(c) \/ Leave(c)

LockFairness == \A c \in Clients : WF_lockVars(Resume(c)) /\ WF_lockVars(Leave(c))

LockSpec == LockInit /\ [][LockNext]_lockVars /\ LockFairness
-----------------------------------------------------------------------------
\* Sequencer commits and broadcasts rely on this: the critical sections of two
\* callers never overlap, although the lock is handed over in two steps.
MutualExclusion ==
    \A c, d \in Clients : pc[c] = "critical" /\ pc[d] = "critical" => c = d

\* The callers that own the lock or have been promised it.
Owners == {c \in Clients : pc[c] \in {"critical", "woken"}}

\* The mutex agrees with its callers, the woken one counting as its owner: no
\* caller sleeps unqueued, and none is left asleep on an unlocked mutex.
HandOver == Consistent(mutex, Owners, {c \in Clients : pc[c] = "sleeping"})

LockIndInv == LockTypeOK /\ HandOver

\* The callers in line: the owner, then those asleep in the deferrer.
LockQueue ==
    IF Owners = {} THEN <<>>
    ELSE <<CHOOSE c \in Owners : TRUE>> \o mutex.waiters

Fifo == INSTANCE FifoLock WITH queue <- LockQueue

\* Callers get the lock in the order in which they called lock(), whatever
\* calls arrive while a woken caller has not resumed yet (no barging).
ImplementsFifoLock == Fifo!Spec

\* No wake-up is lost: a caller that sleeps in lock() runs its section some
\* time, given that sections settle.
EveryCallerIsServed ==
    \A c \in Clients : pc[c] = "sleeping" ~> pc[c] = "critical"
=============================================================================
