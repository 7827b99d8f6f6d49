------------------------------- MODULE Mutex -------------------------------
(***************************************************************************)
(* The promise mutex of core/mutex.ts as operators on a record             *)
(*     [locked |-> isLocked, waiters |-> callers asleep in the deferrer].  *)
(* The waiters form the linked list of core/default-deferrer.ts: sleep     *)
(* inserts last, wakeUpNext removes first.                                 *)
(***************************************************************************)
EXTENDS Naturals, Sequences

FreeMutex == [locked |-> FALSE, waiters |-> <<>>]

\* lock(): a caller that finds the mutex locked goes to sleep, any other
\* caller marks it locked and runs its critical section.
Lock(m, c) ==
    IF m.locked THEN [m EXCEPT !.waiters = Append(@, c)]
                ELSE [m EXCEPT !.locked = TRUE]

\* Unlock as it would be if the mutex were freed before waking the next waiter.
UnlockAndBarge(m) ==
    [locked |-> FALSE,
     waiters |-> IF m.waiters # <<>> THEN Tail(m.waiters) ELSE <<>>]

\* The next caller as it would be if the deferrer lost the callback.
WokenNobody(m) == {}

\* The next caller as it would be if the deferrer were a stack.
WokenLastIn(m) ==
    IF m.waiters # <<>> THEN {m.waiters[Len(m.waiters)]} ELSE {}

\* The finally block of lock(): the mutex stays locked on behalf of the
\* waiter that is woken, and is unlocked only when nobody waits.
Unlock(m) ==
    IF m.waiters # <<>> THEN [m EXCEPT !.waiters = Tail(@)]
                        ELSE [m EXCEPT !.locked = FALSE]

\* The caller that Unlock wakes, as a set with at most one element.
WokenByUnlock(m) == IF m.waiters # <<>> THEN {Head(m.waiters)} ELSE {}

\* The mutex agrees with its callers: it is locked exactly while somebody owns
\* it, by one owner only, and its queue holds each sleeping caller once and
\* nobody else.
Consistent(m, owners, sleeping) ==
    /\ m.locked <=> owners # {}
    /\ m.waiters # <<>> => m.locked
    /\ \A c, d \in owners : c = d
    /\ \A i, j \in 1..Len(m.waiters) : m.waiters[i] = m.waiters[j] => i = j
    /\ sleeping = {m.waiters[i] : i \in 1..Len(m.waiters)}
=============================================================================
