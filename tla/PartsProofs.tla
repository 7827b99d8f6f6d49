----------------------------- MODULE PartsProofs -----------------------------
(***************************************************************************)
(* Proofs about the parts that run on their own, for any size of each: the *)
(* callers of a mutex, the open file of the ledger, the processes of       *)
(* NodeSystem, a reaction's pipeline, a listener on its linked list, and   *)
(* the scans of the ledger file.  Each part has an inductive invariant of  *)
(* its own.                                                                *)
(***************************************************************************)
EXTENDS NodeSystem, MutexClients, FileHandle, ReactionPipeline, EventListeners, LedgerScan,
        FiniteSetTheorems, SharedLemmas

USE DEF PCs

(***************************************************************************)
(* The mutex: it agrees with its callers, which gives mutual exclusion and *)
(* the implementation of FifoLock.                                         *)
(***************************************************************************)
Sleeping == {c \in Clients : pc[c] = "sleeping"}

\* The initial state satisfies the invariant.
LEMMA LockInitIndInv == LockInit => LockIndInv
<1> SUFFICES ASSUME LockInit PROVE LockIndInv
  OBVIOUS
<1>1. Owners = {} /\ Sleeping = {} /\ mutex = FreeMutex
  BY DEF LockInit, Owners, Sleeping
<1>2. LockTypeOK
  BY DEF LockInit, LockTypeOK, FreeMutex
<1>3. Consistent(mutex, {}, {})
  BY <1>1 DEF Consistent, FreeMutex
<1> QED BY <1>1, <1>2, <1>3 DEF LockIndInv, HandOver, Sleeping

\* A call, immediate or queued, keeps the invariant.
LEMMA CallKeepsLock ==
  ASSUME LockIndInv, NEW c \in Clients, CallLock(c)
  PROVE  LockIndInv'
<1> USE DEF LockIndInv, LockTypeOK
<1>0. Consistent(mutex, Owners, Sleeping) /\ c \notin Sleeping
  BY DEF HandOver, Sleeping, CallLock
<1>1. CASE mutex.locked
  <2>1. Owners' = Owners /\ Sleeping' = Sleeping \cup {c}
    BY <1>1 DEF CallLock, Owners, Sleeping
  <2>2. mutex' \in [locked : BOOLEAN, waiters : Seq(Clients)]
        /\ Consistent(mutex', Owners', Sleeping')
    BY <1>0, <1>1, <2>1, LockTaken DEF CallLock
  <2> QED BY <2>2, <1>1 DEF CallLock, HandOver, Sleeping
<1>2. CASE ~mutex.locked
  <2>0. Owners = {} /\ Sleeping = {}
    BY <1>2, <1>0, LockFree
  <2>1. Owners' = {c} /\ Sleeping' = Sleeping
    BY <1>2, <2>0 DEF CallLock, Owners, Sleeping
  <2>2. mutex' \in [locked : BOOLEAN, waiters : Seq(Clients)]
        /\ Consistent(mutex', Owners', Sleeping')
    BY <1>0, <1>2, <2>1, LockFree DEF CallLock
  <2> QED BY <2>2, <1>2 DEF CallLock, HandOver, Sleeping
<1> QED BY <1>1, <1>2

\* The second half of a hand-over keeps the invariant.
LEMMA ResumeKeepsLock ==
  ASSUME LockIndInv, NEW c \in Clients, Resume(c)
  PROVE  LockIndInv'
<1> USE DEF LockIndInv, LockTypeOK
<1>1. Owners' = Owners /\ c \in Owners /\ Sleeping' = Sleeping
  BY DEF Resume, Owners, Sleeping
<1>2. mutex' = mutex
  BY <1>1 DEF Resume, HandOver, Consistent
<1> QED BY <1>1, <1>2 DEF Resume, HandOver, Sleeping

\* The end of a critical section keeps the invariant.
LEMMA LeaveKeepsLock ==
  ASSUME LockIndInv, NEW c \in Clients, Leave(c)
  PROVE  LockIndInv'
<1> USE DEF LockIndInv, LockTypeOK
<1> DEFINE woken == WokenByUnlock(mutex)
<1>1. Consistent(mutex, Owners, Sleeping)
  BY DEF HandOver, Sleeping
<1>2. c \in Owners /\ Owners = {c} /\ mutex.locked /\ c \notin Sleeping
  BY <1>1 DEF Leave, Owners, Consistent, Sleeping
<1>3. /\ mutex' \in [locked : BOOLEAN, waiters : Seq(Clients)]
      /\ woken \subseteq Sleeping
      /\ Consistent(mutex', woken, Sleeping \ woken)
  BY <1>1, <1>2, UnlockHandsOver DEF Leave
<1> HIDE DEF woken
<1>4. \A d \in Clients : pc'[d] = IF d \in woken THEN "woken"
                                 ELSE IF d = c THEN "idle" ELSE pc[d]
  BY DEF Leave, woken
<1>5. pc' \in [Clients -> PCs]
  BY <1>4 DEF Leave
<1>6. Owners' = woken
  BY <1>2, <1>3, <1>4 DEF Owners, Sleeping
<1>7. Sleeping' = Sleeping \ woken
  BY <1>2, <1>4 DEF Sleeping
<1> QED BY <1>3, <1>5, <1>6, <1>7 DEF HandOver, Sleeping

\* The invariant that carries the hand-over holds in every reachable state.
THEOREM LockIndInvHolds == LockSpec => []LockIndInv
<1>1. LockIndInv /\ [LockNext]_lockVars => LockIndInv'
  <2> SUFFICES ASSUME LockIndInv, [LockNext]_lockVars
               PROVE  LockIndInv'
    OBVIOUS
  <2>1. CASE LockNext
    BY <2>1, CallKeepsLock, ResumeKeepsLock, LeaveKeepsLock DEF LockNext
  <2>2. CASE UNCHANGED lockVars
    BY <2>2 DEF lockVars, LockIndInv, LockTypeOK, HandOver, Owners, Consistent
  <2> QED BY <2>1, <2>2
<1> QED BY LockInitIndInv, <1>1, PTL DEF LockSpec

\* Two callers are never inside their critical sections together.
THEOREM MutualExclusionHolds == LockSpec => []MutualExclusion
<1>1. LockIndInv => MutualExclusion
  BY DEF LockIndInv, HandOver, Consistent, Owners, MutualExclusion
<1> QED BY LockIndInvHolds, <1>1, PTL

\* In a state of the invariant, the line is empty or headed by the only owner.
LEMMA LockQueueShape ==
  ASSUME LockIndInv
  PROVE  /\ Owners = {} => LockQueue = <<>> /\ mutex.waiters = <<>>
         /\ \A c \in Owners : LockQueue = <<c>> \o mutex.waiters
  BY DEF LockIndInv, HandOver, Consistent, LockQueue

\* Each step of the mutex is a step of the abstract lock or leaves it alone:
\* calls join the line at its end, the owner leaves it at its head, and the
\* resumption of a woken caller changes nothing.
LEMMA StepImplementsFifoLock ==
  ASSUME LockIndInv, LockIndInv', [LockNext]_lockVars
  PROVE  [Fifo!Next]_LockQueue
<1> USE LockQueueShape DEF LockIndInv, LockTypeOK
<1>0. \A c \in Owners' : LockQueue' = <<c>> \o mutex'.waiters
  BY DEF HandOver, Consistent, LockQueue
<1>1. ASSUME NEW c \in Clients, CallLock(c)
      PROVE  Fifo!Request(c)
  <2>1. CASE mutex.locked
    <3>1. /\ mutex'.waiters = Append(mutex.waiters, c)
          /\ Owners' = Owners /\ Owners # {}
      BY <1>1, <2>1 DEF CallLock, Lock, HandOver, Consistent, Owners
    <3>2. PICK o \in Owners : TRUE
      BY <3>1
    <3>3. LockQueue = <<o>> \o mutex.waiters /\ LockQueue' = <<o>> \o mutex'.waiters
      BY <1>0, <3>1, <3>2
    <3>4. LockQueue' = Append(LockQueue, c)
      BY <3>1, <3>2, <3>3 DEF Owners
    <3>5. c # o /\ \A i \in 1..Len(mutex.waiters) : mutex.waiters[i] # c
      BY <1>1, <3>2 DEF CallLock, Owners, HandOver, Consistent
    <3>6. \A i \in 1..Len(LockQueue) : LockQueue[i] # c
      BY <3>3, <3>5, <3>2 DEF Owners
    <3> QED BY <3>4, <3>6 DEF Fifo!Request, Fifo!Waiting
  <2>2. CASE ~mutex.locked
    <3>1. Owners = {} /\ mutex.waiters = <<>>
      BY <2>2 DEF HandOver, Consistent
    <3>2. c \in Owners' /\ mutex'.waiters = <<>>
      BY <1>1, <2>2, <3>1 DEF CallLock, Lock, Owners
    <3>3. LockQueue = <<>> /\ LockQueue' = <<c>>
      BY <1>0, <3>1, <3>2
    <3> QED BY <3>3 DEF Fifo!Request, Fifo!Waiting
  <2> QED BY <2>1, <2>2
<1>2. ASSUME NEW c \in Clients, Resume(c)
      PROVE  UNCHANGED LockQueue
  <2>1. c \in Owners /\ c \in Owners' /\ mutex'.waiters = mutex.waiters
    BY <1>2 DEF Resume, Owners
  <2> QED BY <1>0, <2>1
<1>3. ASSUME NEW c \in Clients, Leave(c)
      PROVE  Fifo!Leave(c)
  <2>1. c \in Owners /\ Owners = {c} /\ LockQueue = <<c>> \o mutex.waiters
    BY <1>3 DEF Leave, Owners, HandOver, Consistent
  <2>2. LockQueue # <<>> /\ Head(LockQueue) = c /\ Tail(LockQueue) = mutex.waiters
    BY <2>1
  <2>3. CASE mutex.waiters = <<>>
    <3>1. Owners' = {}
      BY <1>3, <2>1, <2>3 DEF Leave, Owners, WokenByUnlock
    <3>2. LockQueue' = <<>>
      BY <3>1 DEF LockQueue
    <3> QED BY <2>2, <2>3, <3>2 DEF Fifo!Leave
  <2>4. CASE mutex.waiters # <<>>
    <3>1. /\ Head(mutex.waiters) \in Clients
          /\ mutex'.waiters = Tail(mutex.waiters)
      BY <1>3, <2>4 DEF Leave, Unlock
    <3>2. pc'[Head(mutex.waiters)] = "woken"
      BY <1>3, <2>4, <3>1 DEF Leave, WokenByUnlock
    <3>3. Head(mutex.waiters) \in Owners'
      BY <3>1, <3>2 DEF Owners
    <3>4. <<Head(mutex.waiters)>> \o Tail(mutex.waiters) = mutex.waiters
      BY <2>4, HeadTailProperties
    <3>5. LockQueue' = mutex.waiters
      BY <1>0, <3>1, <3>3, <3>4
    <3> QED BY <2>2, <3>5 DEF Fifo!Leave
  <2> QED BY <2>3, <2>4
<1>4. ASSUME UNCHANGED lockVars
      PROVE  UNCHANGED LockQueue
  BY <1>4 DEF lockVars, LockQueue, Owners
<1> QED BY <1>1, <1>2, <1>3, <1>4 DEF LockNext, Fifo!Next

\* The mutex implements the abstract first-in-first-out lock.
THEOREM MutexImplementsFifoLock == LockSpec => ImplementsFifoLock
<1>1. LockInit => Fifo!Init
  BY DEF LockInit, Fifo!Init, LockQueue, Owners
<1> QED
  BY <1>1, LockIndInvHolds, StepImplementsFifoLock, PTL
  DEF LockSpec, ImplementsFifoLock, Fifo!Spec
-----------------------------------------------------------------------------
(***************************************************************************)
(* The open file: one handle at most can write, and file, batch, queue and *)
(* callers of that handle follow each other in the order of the calls, so  *)
(* the lines keep it.                                                      *)
(***************************************************************************)
Handle ==
    [state : {"none", "opening", "failed", "open", "closing", "closed"},
     callers : Seq(Chunks), queue : Seq(Chunks), batch : Seq(Chunks),
     done : Nat, busy : BOOLEAN]

FileTypeOK ==
    /\ cache \in 0..MaxOpens
    /\ handles \in [1..MaxOpens -> Handle]
    /\ outcome \in [Chunks -> {"none", "pending", "resolved", "rejected"}]
    /\ disposal \in {"none", "waiting", "closing", "done"}
    /\ called \in Seq(Chunks) /\ file \in Seq(Chunks)

\* Call c was made before call d, according to the history cl.
Before(cl, c, d) ==
    \E k, l \in 1..Len(cl) : k < l /\ cl[k] = c /\ cl[l] = d

In(c, s) == \E i \in 1..Len(s) : s[i] = c

\* s is a sequence of calls in their order.
Ordered(cl, s) == \A i, j \in 1..Len(s) : i < j => Before(cl, s[i], s[j])

\* A batch under way has a chunk left to write.
Batched(hd) ==
    /\ hd.batch # <<>> => hd.done < Len(hd.batch)
    /\ hd.busy => hd.batch # <<>>

\* What handle hd still may write waits for it in the order of the calls,
\* behind what the file holds.
InLine(cl, fl, hd) ==
    /\ Ordered(cl, hd.callers) /\ Ordered(cl, hd.queue) /\ Ordered(cl, hd.batch)
    /\ \A c \in Chunks : In(c, hd.callers) \/ In(c, hd.queue) \/ In(c, hd.batch) => In(c, cl)
    /\ \A c, d \in Chunks : In(c, hd.queue) /\ In(d, hd.callers) => Before(cl, c, d)
    /\ \A c, d \in Chunks :
          In(c, hd.batch) /\ (In(d, hd.queue) \/ In(d, hd.callers)) => Before(cl, c, d)
    /\ \A c, d \in Chunks :
          In(c, fl) /\ (In(d, hd.queue) \/ In(d, hd.callers)) => Before(cl, c, d)
    /\ \A i \in 1..Len(hd.batch) : i <= hd.done => In(hd.batch[i], fl)
    /\ \A i \in 1..Len(hd.batch) : i > hd.done =>
          \A c \in Chunks : In(c, fl) => Before(cl, c, hd.batch[i])

\* The states in which a handle may still write.
Live == {"opening", "open", "closing"}

\* A handle that lives is the cached one; one that does not is not busy.
OneWriter ==
    \A h \in 1..MaxOpens :
        /\ handles[h].state \in Live => h = cache /\ Batched(handles[h]) /\ InLine(called, file, handles[h])
        /\ handles[h].state \notin {"open", "closing"} => ~handles[h].busy
        /\ handles[h].state = "none" => handles[h] = NewHandle

\* dispose() closes the cached handle.
Disposing ==
    disposal = "closing" => cache # 0 /\ handles[cache].state \in {"closing", "closed"}

Recorded ==
    /\ \A c \in Chunks : outcome[c] = "none" => ~In(c, called)
    /\ \A c \in Chunks : outcome[c] = "resolved" => In(c, file)
    /\ \A c \in Chunks : In(c, file) => In(c, called)
    /\ Ordered(called, file)

FileIndInv == FileTypeOK /\ OneWriter /\ Disposing /\ Recorded
-----------------------------------------------------------------------------
\* Who is in a sequence to which e is appended, or whose head is taken.
LEMMA Members ==
    ASSUME NEW S, NEW s \in Seq(S), NEW e \in S
    PROVE  /\ \A c : In(c, Append(s, e)) <=> c = e \/ In(c, s)
           /\ \A c : ~In(c, <<>>)
           /\ s # <<>> => /\ Head(s) \in S /\ Tail(s) \in Seq(S)
                          /\ \A c : In(c, s) <=> c = Head(s) \/ In(c, Tail(s))
<1>1. /\ Len(Append(s, e)) = Len(s) + 1 /\ Append(s, e)[Len(s) + 1] = e
      /\ \A i \in 1..Len(s) : Append(s, e)[i] = s[i]
  OBVIOUS
<1>2. \A c : In(c, Append(s, e)) <=> c = e \/ In(c, s)
  BY <1>1 DEF In
<1>3. ASSUME s # <<>>
      PROVE  /\ Head(s) \in S /\ Tail(s) \in Seq(S)
             /\ \A c : In(c, s) <=> c = Head(s) \/ In(c, Tail(s))
  <2>1. /\ Len(s) \in Nat \ {0} /\ Head(s) = s[1] /\ Len(Tail(s)) = Len(s) - 1
        /\ Tail(s) \in Seq(S) /\ Head(s) \in S
        /\ \A i \in 1..Len(Tail(s)) : Tail(s)[i] = s[i + 1]
    BY <1>3
  <2>2. \A c : In(c, s) => c = Head(s) \/ In(c, Tail(s))
    <3> SUFFICES ASSUME NEW i \in 1..Len(s) PROVE s[i] = Head(s) \/ In(s[i], Tail(s))
      BY DEF In
    <3>1. CASE i = 1
      BY <2>1, <3>1
    <3>2. CASE i # 1
      <4>1. i - 1 \in 1..Len(Tail(s)) /\ Tail(s)[i - 1] = s[i]
        BY <2>1, <3>2
      <4> QED
        BY <4>1 DEF In
    <3> QED
      BY <3>1, <3>2
  <2>3. \A c : In(c, Tail(s)) => In(c, s)
    <3> SUFFICES ASSUME NEW i \in 1..Len(Tail(s)) PROVE In(Tail(s)[i], s)
      BY DEF In
    <3>1. i + 1 \in 1..Len(s) /\ s[i + 1] = Tail(s)[i]
      BY <2>1
    <3> QED
      BY <3>1 DEF In
  <2>4. In(Head(s), s)
    BY <2>1 DEF In
  <2> QED
    BY <2>1, <2>2, <2>3, <2>4
<1>4. \A c : ~In(c, <<>>)
  BY DEF In
<1> QED
  BY <1>2, <1>3, <1>4

\* One more call comes after all the others.
LEMMA OneMoreCall ==
    ASSUME NEW cl \in Seq(Chunks), NEW e \in Chunks
    PROVE  /\ \A c, d : Before(cl, c, d) => Before(Append(cl, e), c, d)
           /\ \A c : In(c, cl) => Before(Append(cl, e), c, e)
           /\ \A s : Ordered(cl, s) => Ordered(Append(cl, e), s)
<1>1. /\ Len(Append(cl, e)) = Len(cl) + 1 /\ Append(cl, e)[Len(cl) + 1] = e /\ Len(cl) \in Nat
      /\ \A i \in 1..Len(cl) : Append(cl, e)[i] = cl[i]
  OBVIOUS
<1>2. \A c, d : Before(cl, c, d) => Before(Append(cl, e), c, d)
  BY <1>1 DEF Before
<1>3. \A c : In(c, cl) => Before(Append(cl, e), c, e)
  BY <1>1 DEF Before, In
<1>4. \A s : Ordered(cl, s) => Ordered(Append(cl, e), s)
  BY <1>2 DEF Ordered
<1> QED
  BY <1>2, <1>3, <1>4

\* How order passes to a longer and to a shorter sequence.
LEMMA OrderedSteps ==
    ASSUME NEW cl, NEW s \in Seq(Chunks), Ordered(cl, s), NEW e \in Chunks
    PROVE  /\ (\A c \in Chunks : In(c, s) => Before(cl, c, e)) => Ordered(cl, Append(s, e))
           /\ s # <<>> => /\ Ordered(cl, Tail(s))
                          /\ \A c : In(c, Tail(s)) => Before(cl, Head(s), c)
<1>1. /\ Len(Append(s, e)) = Len(s) + 1 /\ Append(s, e)[Len(s) + 1] = e /\ Len(s) \in Nat
      /\ \A i \in 1..Len(s) : Append(s, e)[i] = s[i] /\ s[i] \in Chunks
  OBVIOUS
<1>2. ASSUME \A c \in Chunks : In(c, s) => Before(cl, c, e) PROVE Ordered(cl, Append(s, e))
  BY <1>1, <1>2 DEF Ordered, In
<1>3. ASSUME s # <<>>
      PROVE  Ordered(cl, Tail(s)) /\ \A c : In(c, Tail(s)) => Before(cl, Head(s), c)
  <2>1. /\ Len(s) \in Nat \ {0} /\ Head(s) = s[1] /\ Len(Tail(s)) = Len(s) - 1
        /\ \A i \in 1..Len(Tail(s)) : Tail(s)[i] = s[i + 1]
    BY <1>3
  <2>2. \A i, j \in 1..Len(Tail(s)) : i < j => Before(cl, Tail(s)[i], Tail(s)[j])
    BY <2>1 DEF Ordered
  <2>3. \A i \in 1..Len(Tail(s)) : Before(cl, Head(s), Tail(s)[i])
    BY <2>1 DEF Ordered
  <2> QED
    BY <2>2, <2>3 DEF Ordered, In
<1> QED
  BY <1>2, <1>3
-----------------------------------------------------------------------------
\* A call that arrives keeps the line of its handle.
LEMMA CallKeepsLine ==
    ASSUME NEW cl \in Seq(Chunks), NEW fl \in Seq(Chunks), NEW hd \in Handle, NEW new \in Handle,
           NEW c \in Chunks, InLine(cl, fl, hd), \A d \in Chunks : In(d, fl) => In(d, cl),
           new.callers = Append(hd.callers, c), new.queue = hd.queue,
           new.batch = hd.batch, new.done = hd.done
    PROVE  InLine(Append(cl, c), fl, new)
<1> DEFINE cm == Append(cl, c)
<1>1. /\ hd.callers \in Seq(Chunks)
      /\ \A d : In(d, new.callers) <=> d = c \/ In(d, hd.callers)
      /\ \A d : In(d, cm) <=> d = c \/ In(d, cl)
  BY Members DEF Handle
<1>2. /\ \A d, e : Before(cl, d, e) => Before(cm, d, e)
      /\ \A d : In(d, cl) => Before(cm, d, c)
      /\ \A s : Ordered(cl, s) => Ordered(cm, s)
  BY OneMoreCall
<1> HIDE DEF cm
<1>3. Ordered(cm, new.callers) /\ Ordered(cm, new.queue) /\ Ordered(cm, new.batch)
  <2>1. Ordered(cm, hd.callers) /\ \A d \in Chunks : In(d, hd.callers) => Before(cm, d, c)
    BY <1>2 DEF InLine
  <2> QED
    BY <1>1, <1>2, <2>1, OrderedSteps DEF InLine
<1>4. InLine(cm, fl, new)
  BY <1>1, <1>2, <1>3 DEF InLine, Handle
<1> QED
  BY <1>4 DEF cm

\* The first of the callers joins the queue at its end.
LEMMA EnterKeepsLine ==
    ASSUME NEW cl, NEW fl, NEW hd \in Handle, NEW new \in Handle,
           InLine(cl, fl, hd), hd.callers # <<>>,
           new.callers = Tail(hd.callers), new.queue = Append(hd.queue, Head(hd.callers)),
           new.batch = hd.batch, new.done = hd.done
    PROVE  InLine(cl, fl, new)
<1> DEFINE c == Head(hd.callers)
<1>1. /\ hd.callers \in Seq(Chunks) /\ hd.queue \in Seq(Chunks) /\ hd.batch \in Seq(Chunks)
      /\ hd.done \in Nat
  BY DEF Handle
<1>2. c \in Chunks /\ \A d : In(d, hd.callers) <=> d = c \/ In(d, new.callers)
  BY <1>1, Members
<1> HIDE DEF c
<1>3. \A d : In(d, new.queue) <=> d = c \/ In(d, hd.queue)
  BY <1>1, <1>2, Members DEF c
<1>4. Ordered(cl, new.callers) /\ \A d : In(d, new.callers) => Before(cl, c, d)
  BY <1>1, OrderedSteps DEF InLine, c
<1>5. Ordered(cl, new.queue)
  <2>1. Ordered(cl, hd.queue) /\ \A d \in Chunks : In(d, hd.queue) => Before(cl, d, c)
    BY <1>2 DEF InLine
  <2> QED
    BY <1>1, <1>2, <2>1, OrderedSteps DEF c
<1> QED
  BY <1>1, <1>2, <1>3, <1>4, <1>5 DEF InLine

\* The queue becomes the next batch.
LEMMA TakenKeepsLine ==
    ASSUME NEW cl, NEW fl, NEW hd \in Handle, InLine(cl, fl, hd)
    PROVE  Taken(hd) \in Handle /\ InLine(cl, fl, Taken(hd)) /\ Batched(Taken(hd))
<1> DEFINE new == Taken(hd)
<1>1. /\ new \in Handle /\ new.callers = hd.callers /\ new.batch = hd.queue
      /\ new.queue = <<>> /\ new.done = 0 /\ (new.busy => hd.queue # <<>>)
  <2> DEFINE busy == hd.state = "open" /\ hd.queue # <<>>
             taken == [hd EXCEPT !.batch = hd.queue, !.done = 0, !.queue = <<>>, !.busy = busy]
  <2>1. new = taken
    BY DEF Taken
  <2>2. busy \in BOOLEAN /\ (busy => hd.queue # <<>>) /\ <<>> \in Seq(Chunks)
    OBVIOUS
  <2> HIDE DEF busy
  <2>3. /\ taken \in Handle /\ taken.callers = hd.callers /\ taken.batch = hd.queue
        /\ taken.queue = <<>> /\ taken.done = 0
    BY <2>2 DEF Handle
  <2>4. taken.busy = busy
    BY DEF Handle
  <2> QED
    BY <2>1, <2>2, <2>3, <2>4
<1>2. \A c : ~In(c, new.queue)
  BY <1>1 DEF In
<1>3. hd.queue \in Seq(Chunks) /\ \A i \in 1..Len(hd.queue) : In(hd.queue[i], hd.queue) /\ hd.queue[i] \in Chunks
  BY DEF Handle, In
<1> HIDE DEF new
<1>4. Batched(new)
  BY <1>1, <1>3 DEF Batched
<1>5. Ordered(cl, new.queue)
  BY <1>1 DEF Ordered
<1>6. InLine(cl, fl, new)
  BY <1>1, <1>2, <1>3, <1>5 DEF InLine
<1> QED
  BY <1>1, <1>4, <1>6 DEF new

\* The next chunk of the batch goes to the end of the file.
LEMMA WriteKeepsLine ==
    ASSUME NEW cl, NEW fl \in Seq(Chunks), NEW hd \in Handle, NEW new \in Handle,
           InLine(cl, fl, hd), Batched(hd), hd.batch # <<>>, Ordered(cl, fl),
           new.callers = hd.callers, new.queue = hd.queue,
           new.batch = hd.batch, new.done = hd.done + 1
    PROVE  LET written == hd.batch[hd.done + 1]
           IN  /\ written \in Chunks /\ In(written, cl)
               /\ InLine(cl, Append(fl, written), new)
               /\ Ordered(cl, Append(fl, written))
<1> DEFINE n == hd.done + 1
           written == hd.batch[n]
           fm == Append(fl, written)
<1>1. hd.batch \in Seq(Chunks) /\ hd.done \in Nat /\ n \in 1..Len(hd.batch) /\ written \in Chunks
  BY DEF Handle, Batched
<1>2. \A i \in 1..Len(hd.batch) : hd.batch[i] \in Chunks /\ In(hd.batch[i], hd.batch)
  BY <1>1 DEF In
<1>3. \A c \in Chunks : In(c, fl) => Before(cl, c, written)
  BY <1>1 DEF InLine
<1> HIDE DEF n
<1>4. \A i \in 1..Len(hd.batch) : i > n => Before(cl, written, hd.batch[i])
  BY <1>1 DEF InLine, Ordered
<1>5. new.done = n /\ In(written, hd.batch)
  BY <1>1, <1>2 DEF n
<1> HIDE DEF written
<1>6. \A c : In(c, fm) <=> c = written \/ In(c, fl)
  BY <1>1, Members
<1>7. Ordered(cl, fm)
  BY <1>1, <1>3, OrderedSteps
<1> HIDE DEF fm
<1>8. \A i \in 1..Len(hd.batch) : i <= n => In(hd.batch[i], fm)
  <2> SUFFICES ASSUME NEW i \in 1..Len(hd.batch), i <= n PROVE In(hd.batch[i], fm)
    OBVIOUS
  <2>1. CASE i = n
    BY <1>6, <2>1 DEF written
  <2>2. CASE i # n
    <3>1. i <= hd.done
      BY <1>1, <2>2 DEF n
    <3> QED
      BY <1>6, <3>1 DEF InLine
  <2> QED
    BY <2>1, <2>2
<1>9. \A i \in 1..Len(hd.batch) : i > n => \A c \in Chunks : In(c, fm) => Before(cl, c, hd.batch[i])
  BY <1>1, <1>4, <1>6 DEF InLine, n
<1>10. InLine(cl, fm, new)
  BY <1>1, <1>2, <1>5, <1>6, <1>8, <1>9 DEF InLine
<1>11. In(written, cl)
  BY <1>1, <1>5 DEF InLine
<1> QED
  BY <1>1, <1>7, <1>10, <1>11 DEF fm, written, n
-----------------------------------------------------------------------------
\* Range and In name the same elements.
LEMMA InRange == \A s \in Seq(Chunks) : \A c : c \in Range(s) <=> In(c, s)
  BY DEF Range, In

\* Settling calls records nothing new but what is resolved.
LEMMA SettledIsRecorded ==
    ASSUME FileTypeOK, NEW s \in Seq(Chunks), NEW how \in {"resolved", "rejected"}
    PROVE  /\ Settled(s, how) \in [Chunks -> {"none", "pending", "resolved", "rejected"}]
           /\ \A c \in Chunks : Settled(s, how)[c] = "none" => outcome[c] = "none"
           /\ \A c \in Chunks : Settled(s, how)[c] = "resolved" =>
                 outcome[c] = "resolved" \/ (how = "resolved" /\ In(c, s))
  BY InRange DEF Settled, FileTypeOK

\* A step of handle h keeps the invariant if it keeps the line of h and what is
\* recorded, and leaves the file to whoever may write.
LEMMA ReplaceHandle ==
    ASSUME FileIndInv, NEW h \in 1..MaxOpens, NEW new \in Handle,
           handles' = [handles EXCEPT ![h] = new], called' = called,
           FileTypeOK', Recorded', Disposing',
           new.state # "none",
           new.state \in Live => h = cache' /\ Batched(new) /\ InLine(called, file', new),
           new.state \notin {"open", "closing"} => ~new.busy,
           file' = file \/ handles[h].state \in Live,
           cache' = cache \/ handles[h].state \in Live
    PROVE  FileIndInv'
<1>1. ASSUME NEW g \in 1..MaxOpens
      PROVE  /\ handles'[g].state \in Live =>
                   g = cache' /\ Batched(handles'[g]) /\ InLine(called', file', handles'[g])
             /\ handles'[g].state \notin {"open", "closing"} => ~handles'[g].busy
             /\ handles'[g].state = "none" => handles'[g] = NewHandle
  <2>1. CASE g = h
    <3>1. handles'[g] = new
      BY <2>1 DEF FileIndInv, FileTypeOK
    <3> QED
      BY <2>1, <3>1
  <2>2. CASE g # h
    <3>1. handles'[g] = handles[g]
      BY <2>2 DEF FileIndInv, FileTypeOK
    <3>2. handles[g].state \in Live =>
             g = cache /\ handles[h].state \notin Live
      BY <2>2 DEF FileIndInv, OneWriter
    <3> QED
      BY <3>1, <3>2 DEF FileIndInv, OneWriter
  <2> QED
    BY <2>1, <2>2
<1> QED
  BY <1>1 DEF FileIndInv, OneWriter

\* The initial state satisfies the invariant.
LEMMA FileInitIndInv == FileInit => FileIndInv
<1> SUFFICES ASSUME FileInit PROVE FileIndInv
  OBVIOUS
<1>1. NewHandle \in Handle /\ NewHandle.state = "none" /\ ~NewHandle.busy
  BY DEF NewHandle, Handle
<1>2. FileTypeOK
  BY <1>1, FileAssumption DEF FileInit, FileTypeOK
<1>3. OneWriter
  BY <1>1 DEF FileInit, OneWriter, Live
<1>4. Recorded
  BY DEF FileInit, Recorded, In, Ordered
<1> QED
  BY <1>2, <1>3, <1>4 DEF FileInit, FileIndInv, Disposing

\* A call of appendEvent() keeps the invariant.
LEMMA AppendEventKeepsFile ==
    ASSUME FileIndInv, NEW c \in Chunks, AppendEvent(c)
    PROVE  FileIndInv'
<1> DEFINE h == IF cache # 0 THEN cache ELSE CHOOSE fresh \in Fresh : TRUE
           callers == Append(handles[h].callers, c)
           state == IF handles[h].state = "none" THEN "opening" ELSE handles[h].state
           new == [handles[h] EXCEPT !.callers = callers, !.state = state]
<1>1. h \in 1..MaxOpens /\ (cache = 0 => handles[h].state = "none")
  BY DEF AppendEvent, Fresh, FileIndInv, FileTypeOK
<1>2. /\ cache' = h /\ handles' = [handles EXCEPT ![h] = new]
      /\ outcome' = [outcome EXCEPT ![c] = "pending"] /\ called' = Append(called, c)
      /\ UNCHANGED <<disposal, file>> /\ outcome[c] = "none"
  BY <1>1 DEF AppendEvent, FileIndInv, FileTypeOK
<1> HIDE DEF h
<1>3. handles[h] \in Handle
  BY <1>1 DEF FileIndInv, FileTypeOK
<1>4. /\ new \in Handle /\ new.callers = callers
      /\ new.queue = handles[h].queue /\ new.batch = handles[h].batch
      /\ new.done = handles[h].done /\ new.busy = handles[h].busy
      /\ new.state = state
  <2>1. callers \in Seq(Chunks) /\ state \in {"opening", "failed", "open", "closing", "closed"}
    BY <1>3 DEF Handle
  <2> HIDE DEF callers, state
  <2> QED
    BY <1>3, <2>1 DEF Handle
<1> HIDE DEF new
<1>5. FileTypeOK'
  BY <1>1, <1>2, <1>4 DEF FileIndInv, FileTypeOK
<1>6. Recorded'
  BY <1>2, Members, OneMoreCall DEF FileIndInv, FileTypeOK, Recorded
<1>7. called \in Seq(Chunks) /\ file \in Seq(Chunks) /\ \A d \in Chunks : In(d, file) => In(d, called)
  BY DEF FileIndInv, FileTypeOK, Recorded
<1>8. handles[h].state \in Live \cup {"none"} => Batched(handles[h]) /\ InLine(called, file, handles[h])
  <2>1. Batched(NewHandle) /\ InLine(called, file, NewHandle)
    BY DEF NewHandle, Batched, InLine, Ordered, In
  <2> QED
    BY <1>1, <2>1 DEF FileIndInv, OneWriter
<1>9. new.state \in Live =>
         h = cache' /\ Batched(new) /\ InLine(called', file', new)
  <2> SUFFICES ASSUME new.state \in Live PROVE Batched(new) /\ InLine(called', file', new)
    BY <1>2
  <2>1. Batched(handles[h]) /\ InLine(called, file, handles[h])
    BY <1>4, <1>8 DEF Live
  <2>2. Batched(new)
    BY <1>4, <2>1 DEF Batched
  <2>3. InLine(Append(called, c), file, new)
    BY <1>3, <1>4, <1>7, <2>1, CallKeepsLine
  <2> QED
    BY <1>2, <2>2, <2>3
<1>10. OneWriter'
  <2> SUFFICES ASSUME NEW g \in 1..MaxOpens
               PROVE  /\ handles'[g].state \in Live =>
                            g = cache' /\ Batched(handles'[g]) /\ InLine(called', file', handles'[g])
                      /\ handles'[g].state \notin {"open", "closing"} => ~handles'[g].busy
                      /\ handles'[g].state = "none" => handles'[g] = NewHandle
    BY DEF OneWriter
  <2>1. CASE g = h
    <3>1. handles'[g] = new
      BY <1>1, <1>2, <2>1 DEF FileIndInv, FileTypeOK
    <3>2. new.state # "none" /\ (new.state \notin {"open", "closing"} => ~new.busy)
      BY <1>1, <1>4 DEF FileIndInv, OneWriter
    <3> QED
      BY <1>9, <2>1, <3>1, <3>2
  <2>2. CASE g # h
    <3>1. handles'[g] = handles[g]
      BY <1>1, <1>2, <2>2 DEF FileIndInv, FileTypeOK
    <3>2. handles[g].state \notin Live
      BY <2>2 DEF FileIndInv, OneWriter, h
    <3> QED
      BY <3>1, <3>2 DEF FileIndInv, OneWriter
  <2> QED
    BY <2>1, <2>2
<1>11. Disposing'
  <2>1. cache # 0 => cache' = cache /\ handles'[cache].state = new.state
    BY <1>1, <1>2 DEF FileIndInv, FileTypeOK, h
  <2> QED
    BY <1>2, <1>4, <2>1 DEF FileIndInv, Disposing, h
<1> QED
  BY <1>5, <1>6, <1>10, <1>11 DEF FileIndInv

\* The steps that leave the line of a handle alone.
LEMMA StateStepKeepsFile ==
    ASSUME FileIndInv, NEW h \in 1..MaxOpens,
           Opens(h) \/ OpenFails(h) \/ Closes(h) \/ HandleClosed(h)
    PROVE  FileIndInv'
<1> DEFINE hd == handles[h]
<1>1. hd \in Handle /\ (hd.state \in Live => h = cache /\ Batched(hd) /\ InLine(called, file, hd))
      /\ (hd.state \notin {"open", "closing"} => ~hd.busy)
  BY DEF FileIndInv, FileTypeOK, OneWriter
<1>2. \A st \in {"open", "closing", "closed"} :
         LET new == [hd EXCEPT !.state = st]
         IN  /\ new \in Handle /\ new.state = st /\ new.busy = hd.busy
             /\ Batched(hd) => Batched(new)
             /\ InLine(called, file, hd) => InLine(called, file, new)
  BY <1>1 DEF Handle, Batched, InLine
<1>3. CASE Opens(h)
  <2> DEFINE new == [hd EXCEPT !.state = "open"]
  <2>1. handles' = [handles EXCEPT ![h] = new] /\ hd.state = "opening"
        /\ UNCHANGED <<cache, outcome, disposal, called, file>>
    BY <1>3 DEF Opens
  <2>2. FileTypeOK' /\ Recorded'
    BY <1>2, <2>1 DEF FileIndInv, FileTypeOK, Recorded
  <2>3. Disposing'
    BY <2>1 DEF FileIndInv, FileTypeOK, Disposing
  <2> QED
    BY <1>1, <1>2, <2>1, <2>2, <2>3, ReplaceHandle DEF Live
<1>4. CASE OpenFails(h)
  <2> DEFINE new == [hd EXCEPT !.state = "failed", !.callers = <<>>]
  <2>1. /\ handles' = [handles EXCEPT ![h] = new] /\ hd.state = "opening"
        /\ cache' = 0 /\ outcome' = Settled(hd.callers, "rejected")
        /\ disposal' \in {disposal, "done"}
        /\ UNCHANGED <<called, file>>
    BY <1>4 DEF OpenFails
  <2>2. new \in Handle /\ new.state = "failed" /\ new.busy = hd.busy
    <3>1. <<>> \in Seq(Chunks)
      OBVIOUS
    <3> QED
      BY <1>1, <3>1 DEF Handle
  <2>3. hd.callers \in Seq(Chunks)
    BY <1>1 DEF Handle
  <2> HIDE DEF new
  <2>4. FileTypeOK' /\ Recorded'
    <3>1. /\ outcome' \in [Chunks -> {"none", "pending", "resolved", "rejected"}]
          /\ \A c \in Chunks : outcome'[c] = "none" => outcome[c] = "none"
          /\ \A c \in Chunks : outcome'[c] = "resolved" => outcome[c] = "resolved"
      <4>1. FileTypeOK
        BY DEF FileIndInv
      <4> QED
        BY <2>1, <2>3, <4>1, SettledIsRecorded
    <3>2. FileTypeOK'
      BY <2>1, <2>2, <3>1, FileAssumption DEF FileIndInv, FileTypeOK
    <3>3. Recorded'
      BY <2>1, <3>1 DEF FileIndInv, Recorded
    <3> QED
      BY <3>2, <3>3
  <2>5. Disposing'
    <3>1. disposal = "closing" => h # cache
      BY <2>1 DEF FileIndInv, Disposing
    <3>2. h = cache
      BY <1>1, <2>1 DEF Live
    <3> QED
      BY <2>1, <3>1, <3>2 DEF Disposing
  <2> QED
    BY <1>1, <2>1, <2>2, <2>4, <2>5, ReplaceHandle DEF Live
<1>5. CASE Closes(h)
  <2> DEFINE new == [hd EXCEPT !.state = "closing"]
  <2>1. handles' = [handles EXCEPT ![h] = new] /\ hd.state = "open" /\ disposal' = "closing"
        /\ UNCHANGED <<cache, outcome, called, file>>
    BY <1>5 DEF Closes
  <2>2. FileTypeOK' /\ Recorded'
    BY <1>2, <2>1 DEF FileIndInv, FileTypeOK, Recorded
  <2>3. Disposing'
    BY <1>1, <1>2, <2>1 DEF FileIndInv, FileTypeOK, Disposing, Live
  <2> QED
    BY <1>1, <1>2, <2>1, <2>2, <2>3, ReplaceHandle DEF Live
<1>6. CASE HandleClosed(h)
  <2> DEFINE new == [hd EXCEPT !.state = "closed"]
  <2>1. handles' = [handles EXCEPT ![h] = new] /\ hd.state = "closing" /\ ~hd.busy
        /\ UNCHANGED <<cache, outcome, disposal, called, file>>
    BY <1>6 DEF HandleClosed
  <2>2. FileTypeOK' /\ Recorded'
    BY <1>2, <2>1 DEF FileIndInv, FileTypeOK, Recorded
  <2>3. Disposing'
    BY <1>1, <1>2, <2>1 DEF FileIndInv, FileTypeOK, Disposing, Live
  <2> QED
    BY <1>1, <1>2, <2>1, <2>2, <2>3, ReplaceHandle DEF Live
<1> QED
  BY <1>3, <1>4, <1>5, <1>6

\* A call that goes on once the file is open.
LEMMA EnterKeepsFile ==
    ASSUME FileIndInv, NEW h \in 1..MaxOpens, Enter(h)
    PROVE  FileIndInv'
<1> DEFINE hd == handles[h]
           c == Head(hd.callers)
           rest == [hd EXCEPT !.callers = Tail(hd.callers)]
           queued == [rest EXCEPT !.queue = Append(rest.queue, c)]
<1>1. hd \in Handle /\ (hd.state \in Live => h = cache /\ Batched(hd) /\ InLine(called, file, hd))
      /\ (hd.state \notin {"open", "closing"} => ~hd.busy)
  BY DEF FileIndInv, FileTypeOK, OneWriter
<1>2. hd.callers # <<>> /\ hd.state \in {"open", "closing", "closed"}
      /\ UNCHANGED <<cache, disposal, called, file>>
  BY DEF Enter
<1>3. /\ hd.callers \in Seq(Chunks) /\ hd.queue \in Seq(Chunks)
      /\ c \in Chunks /\ Tail(hd.callers) \in Seq(Chunks)
  BY <1>1, <1>2 DEF Handle
<1>4. /\ rest \in Handle /\ rest.state = hd.state /\ rest.busy = hd.busy /\ rest.batch = hd.batch
      /\ rest.queue = hd.queue /\ rest.done = hd.done /\ rest.callers = Tail(hd.callers)
  BY <1>1, <1>3 DEF Handle
<1>5. CASE hd.state = "closed"
  <2>1. handles' = [handles EXCEPT ![h] = rest] /\ outcome' = [outcome EXCEPT ![c] = "rejected"]
    BY <1>5 DEF Enter
  <2>2. FileTypeOK' /\ Recorded'
    BY <1>2, <1>3, <1>4, <2>1 DEF FileIndInv, FileTypeOK, Recorded
  <2>3. Disposing'
    BY <1>2, <1>4, <2>1 DEF FileIndInv, FileTypeOK, Disposing
  <2> QED
    BY <1>1, <1>2, <1>4, <1>5, <2>1, <2>2, <2>3, ReplaceHandle DEF Live
<1>6. CASE hd.state # "closed"
  <2>1. hd.state \in {"open", "closing"} /\ h = cache /\ Batched(hd) /\ InLine(called, file, hd)
    BY <1>1, <1>2, <1>6 DEF Live
  <2>2. /\ queued \in Handle /\ queued.state = hd.state /\ queued.busy = hd.busy
        /\ queued.batch = hd.batch /\ queued.queue = Append(hd.queue, c)
        /\ queued.done = hd.done /\ queued.callers = Tail(hd.callers)
    <3>1. Append(rest.queue, c) \in Seq(Chunks)
      BY <1>3, <1>4
    <3> HIDE DEF rest, c
    <3> QED
      BY <1>4, <3>1 DEF Handle
  <2>3. handles' = [handles EXCEPT ![h] = IF hd.batch = <<>> THEN Taken(queued) ELSE queued]
        /\ outcome' = outcome
    BY <1>4, <1>6 DEF Enter
  <2> HIDE DEF queued, rest
  <2>4. InLine(called, file, queued)
    BY <1>1, <1>2, <2>1, <2>2, EnterKeepsLine
  <2>5. Taken(queued) \in Handle /\ InLine(called, file, Taken(queued)) /\ Batched(Taken(queued))
    BY <2>2, <2>4, TakenKeepsLine
  <2>6. Taken(queued).state = hd.state
    BY <2>2 DEF Taken, Handle
  <2>7. Batched(queued)
    BY <2>1, <2>2 DEF Batched
  <2> DEFINE new == IF hd.batch = <<>> THEN Taken(queued) ELSE queued
  <2>8. new \in Handle /\ new.state = hd.state /\ Batched(new) /\ InLine(called, file, new)
    BY <2>2, <2>4, <2>5, <2>6, <2>7
  <2>9. handles' = [handles EXCEPT ![h] = new]
    BY <2>3
  <2> HIDE DEF new
  <2>10. FileTypeOK' /\ Recorded'
    BY <1>2, <2>3, <2>8, <2>9 DEF FileIndInv, FileTypeOK, Recorded
  <2>11. Disposing'
    BY <1>2, <2>8, <2>9 DEF FileIndInv, FileTypeOK, Disposing
  <2> QED
    BY <1>2, <2>1, <2>8, <2>9, <2>10, <2>11, ReplaceHandle DEF Live
<1> QED
  BY <1>5, <1>6

\* A chunk that reached the file.
LEMMA WrittenKeepsFile ==
    ASSUME FileIndInv, NEW h \in 1..MaxOpens, ChunkWritten(h)
    PROVE  FileIndInv'
<1> DEFINE old == handles[h]
           hd == [old EXCEPT !.done = old.done + 1]
           chunk == hd.batch[hd.done]
           busy == hd.state = "open"
           more == [hd EXCEPT !.busy = busy]
<1>1. /\ old \in Handle /\ old.busy /\ old.state \in {"open", "closing"} /\ h = cache
      /\ Batched(old) /\ InLine(called, file, old) /\ old.batch # <<>>
  BY DEF FileIndInv, FileTypeOK, OneWriter, ChunkWritten, Live, Batched
<1>2. /\ hd \in Handle /\ hd.state = old.state /\ hd.callers = old.callers /\ hd.queue = old.queue
      /\ hd.batch = old.batch /\ hd.done = old.done + 1 /\ hd.batch \in Seq(Chunks)
  BY <1>1 DEF Handle
<1>3. /\ file' = Append(file, chunk)
      /\ IF hd.done = Len(hd.batch)
            THEN outcome' = Settled(hd.batch, "resolved") /\ handles' = [handles EXCEPT ![h] = Taken(hd)]
            ELSE handles' = [handles EXCEPT ![h] = more] /\ outcome' = outcome
      /\ UNCHANGED <<cache, disposal, called>>
  BY DEF ChunkWritten
<1>4. busy \in BOOLEAN /\ (busy => old.state = "open")
  BY <1>2
<1> HIDE DEF hd, busy
<1>5. /\ more \in Handle /\ more.state = hd.state /\ more.callers = hd.callers
      /\ more.queue = hd.queue /\ more.batch = hd.batch /\ more.done = hd.done
  BY <1>2, <1>4 DEF Handle
<1> HIDE DEF more
<1>6. /\ chunk \in Chunks /\ In(chunk, called)
      /\ InLine(called, file', hd) /\ Ordered(called, file')
  <2>1. chunk = old.batch[old.done + 1]
    BY <1>2
  <2>2. file \in Seq(Chunks) /\ Ordered(called, file)
    BY DEF FileIndInv, FileTypeOK, Recorded
  <2> HIDE DEF old
  <2> QED
    BY <1>1, <1>2, <1>3, <2>1, <2>2, WriteKeepsLine
<1> HIDE DEF chunk
<1>7. /\ file' \in Seq(Chunks)
      /\ \A c : In(c, file') <=> c = chunk \/ In(c, file)
  <2>1. file \in Seq(Chunks)
    BY DEF FileIndInv, FileTypeOK
  <2> QED
    BY <1>3, <1>6, <2>1, Members
<1>8. /\ Taken(hd) \in Handle /\ InLine(called, file', Taken(hd)) /\ Batched(Taken(hd))
      /\ Taken(hd).state = old.state
  <2>1. Taken(hd).state = hd.state
    BY <1>2 DEF Taken, Handle
  <2> QED
    BY <1>2, <1>6, <2>1, TakenKeepsLine
<1>9. /\ outcome' \in [Chunks -> {"none", "pending", "resolved", "rejected"}]
      /\ \A c \in Chunks : outcome'[c] = "none" => outcome[c] = "none"
      /\ \A c \in Chunks : outcome'[c] = "resolved" => In(c, file')
  <2>1. FileTypeOK /\ Recorded
    BY DEF FileIndInv
  <2>2. CASE hd.done = Len(hd.batch)
    <3>1. \A c : In(c, hd.batch) => In(c, file')
      <4> SUFFICES ASSUME NEW i \in 1..Len(hd.batch) PROVE In(hd.batch[i], file')
        BY DEF In
      <4>1. i <= hd.done
        BY <2>2
      <4> QED
        BY <1>6, <4>1 DEF InLine
    <3>2. /\ outcome' \in [Chunks -> {"none", "pending", "resolved", "rejected"}]
          /\ \A c \in Chunks : outcome'[c] = "none" => outcome[c] = "none"
          /\ \A c \in Chunks : outcome'[c] = "resolved" => outcome[c] = "resolved" \/ In(c, hd.batch)
      BY <1>2, <1>3, <2>1, <2>2, SettledIsRecorded
    <3> QED
      BY <1>7, <2>1, <3>1, <3>2 DEF Recorded
  <2>3. CASE hd.done # Len(hd.batch)
    BY <1>3, <1>7, <2>1, <2>3 DEF FileTypeOK, Recorded
  <2> QED
    BY <2>2, <2>3
<1> DEFINE new == IF hd.done = Len(hd.batch) THEN Taken(hd) ELSE more
<1>10. handles' = [handles EXCEPT ![h] = new]
  BY <1>3
<1>11. new \in Handle /\ new.state = old.state /\ Batched(new) /\ InLine(called, file', new)
  <2>1. CASE hd.done = Len(hd.batch)
    BY <1>8, <2>1
  <2>2. CASE hd.done # Len(hd.batch)
    <3>1. hd.done < Len(hd.batch)
      <4>1. Len(hd.batch) \in Nat /\ old.done \in Nat
        BY <1>1, <1>2 DEF Handle
      <4>2. old.done < Len(hd.batch)
        BY <1>1, <1>2 DEF Batched
      <4> QED
        BY <1>2, <2>2, <4>1, <4>2
    <3>2. Batched(more)
      BY <1>1, <1>2, <1>5, <3>1 DEF Batched
    <3>3. InLine(called, file', more)
      BY <1>5, <1>6 DEF InLine
    <3> QED
      BY <1>2, <1>5, <2>2, <3>2, <3>3
  <2> QED
    BY <2>1, <2>2
<1> HIDE DEF new
<1>12. FileTypeOK'
  BY <1>3, <1>7, <1>9, <1>10, <1>11 DEF FileIndInv, FileTypeOK
<1>13. Recorded'
  BY <1>3, <1>6, <1>7, <1>9 DEF FileIndInv, Recorded
<1>14. Disposing'
  BY <1>3, <1>10, <1>11 DEF FileIndInv, FileTypeOK, Disposing
<1> QED
  BY <1>1, <1>3, <1>10, <1>11, <1>12, <1>13, <1>14, ReplaceHandle DEF Live

\* A batch that is rejected.
LEMMA FailsKeepsFile ==
    ASSUME FileIndInv, NEW h \in 1..MaxOpens, Fails(h)
    PROVE  FileIndInv'
<1> DEFINE hd == handles[h]
<1>1. /\ hd \in Handle /\ hd.batch # <<>> /\ hd.batch \in Seq(Chunks)
      /\ hd.state \in Live => h = cache /\ Batched(hd) /\ InLine(called, file, hd)
      /\ hd.state = "none" => hd = NewHandle
  BY DEF FileIndInv, FileTypeOK, OneWriter, Fails, Handle
<1>2. hd.state # "none"
  BY <1>1 DEF NewHandle
<1>3. /\ handles' = [handles EXCEPT ![h] = Taken(hd)] /\ outcome' = Settled(hd.batch, "rejected")
      /\ UNCHANGED <<cache, disposal, called, file>>
  BY DEF Fails
<1>4. /\ Taken(hd) \in Handle /\ Taken(hd).state = hd.state
      /\ hd.state # "open" => ~Taken(hd).busy
  <2> DEFINE busy == hd.state = "open" /\ hd.queue # <<>>
             taken == [hd EXCEPT !.batch = hd.queue, !.done = 0, !.queue = <<>>, !.busy = busy]
  <2>1. Taken(hd) = taken
    BY DEF Taken
  <2>2. busy \in BOOLEAN /\ (busy => hd.state = "open") /\ <<>> \in Seq(Chunks)
    OBVIOUS
  <2> HIDE DEF busy, hd
  <2>3. taken \in Handle /\ taken.state = hd.state
    BY <1>1, <2>2 DEF Handle
  <2>4. taken.busy = busy
    BY <1>1 DEF Handle
  <2> QED
    BY <2>1, <2>2, <2>3, <2>4
<1>5. Taken(hd).state \in Live =>
         h = cache' /\ Batched(Taken(hd)) /\ InLine(called, file', Taken(hd))
  <2> SUFFICES ASSUME hd.state \in Live
               PROVE  h = cache' /\ Batched(Taken(hd)) /\ InLine(called, file', Taken(hd))
    BY <1>4
  <2> HIDE DEF hd
  <2> QED
    BY <1>1, <1>3, TakenKeepsLine
<1> DEFINE new == Taken(hd)
<1>6. /\ outcome' \in [Chunks -> {"none", "pending", "resolved", "rejected"}]
      /\ \A c \in Chunks : outcome'[c] = "none" => outcome[c] = "none"
      /\ \A c \in Chunks : outcome'[c] = "resolved" => outcome[c] = "resolved"
  <2>1. FileTypeOK
    BY DEF FileIndInv
  <2> QED
    BY <1>1, <1>3, <2>1, SettledIsRecorded
<1> HIDE DEF new
<1>7. new \in Handle /\ new.state = hd.state /\ handles' = [handles EXCEPT ![h] = new]
      /\ (new.state \notin {"open", "closing"} => ~new.busy)
      /\ (new.state \in Live => h = cache' /\ Batched(new) /\ InLine(called, file', new))
  BY <1>3, <1>4, <1>5 DEF new
<1>8. FileTypeOK'
  BY <1>3, <1>6, <1>7 DEF FileIndInv, FileTypeOK
<1>9. Recorded'
  BY <1>3, <1>6 DEF FileIndInv, Recorded
<1>10. Disposing'
  BY <1>3, <1>7 DEF FileIndInv, FileTypeOK, Disposing
<1> QED
  BY <1>2, <1>3, <1>7, <1>8, <1>9, <1>10, ReplaceHandle

\* The two ends of dispose().
LEMMA DisposeKeepsFile ==
    ASSUME FileIndInv, Dispose \/ Disposed
    PROVE  FileIndInv'
<1>1. UNCHANGED <<handles, outcome, called, file>>
  BY DEF Dispose, Disposed
<1>2. CASE Dispose
  BY <1>1, <1>2 DEF Dispose, FileIndInv, FileTypeOK, OneWriter, Disposing, Recorded
<1>3. CASE Disposed
  <2>1. /\ disposal = "closing" /\ disposal' = "done" /\ cache' = 0
        /\ \A h \in 1..MaxOpens : handles[h].state # "closing"
    BY <1>3 DEF Disposed
  <2>2. \A h \in 1..MaxOpens : handles[h].state \notin Live
    <3> SUFFICES ASSUME NEW h \in 1..MaxOpens, handles[h].state \in Live PROVE FALSE
      OBVIOUS
    <3>1. h = cache
      BY DEF FileIndInv, OneWriter
    <3>2. handles[h].state \in {"closing", "closed"}
      BY <2>1, <3>1 DEF FileIndInv, Disposing
    <3> QED
      BY <2>1, <3>2 DEF Live
  <2>3. FileTypeOK' /\ Disposing' /\ Recorded'
    BY <1>1, <2>1, FileAssumption DEF FileIndInv, FileTypeOK, Disposing, Recorded
  <2>4. OneWriter'
    BY <1>1, <2>2 DEF FileIndInv, OneWriter
  <2> QED
    BY <2>3, <2>4 DEF FileIndInv
<1> QED
  BY <1>2, <1>3

\* Every step keeps the invariant.
LEMMA FileNextIndInv == FileIndInv /\ [FileNext]_fileVars => FileIndInv'
<1> SUFFICES ASSUME FileIndInv, [FileNext]_fileVars PROVE FileIndInv'
  OBVIOUS
<1>1. ASSUME NEW c \in Chunks, AppendEvent(c) PROVE FileIndInv'
  BY <1>1, AppendEventKeepsFile
<1>2. ASSUME NEW h \in 1..MaxOpens, HandleStep(h) PROVE FileIndInv'
  BY <1>2, StateStepKeepsFile, EnterKeepsFile, WrittenKeepsFile, FailsKeepsFile DEF HandleStep
<1>3. CASE Dispose \/ Disposed
  BY <1>3, DisposeKeepsFile
<1>4. CASE UNCHANGED fileVars
  BY <1>4 DEF fileVars, FileIndInv, FileTypeOK, OneWriter, Disposing, Recorded
<1> QED
  BY <1>1, <1>2, <1>3, <1>4 DEF FileNext

\* One handle at most can write, and all of what it is to write waits in the
\* order in which appendEvent() was called.
THEOREM FileIndInvHolds == FileSpec => []FileIndInv
<1> QED
  BY FileInitIndInv, FileNextIndInv, PTL DEF FileSpec

\* The lines of the ledger file are those of different calls of appendEvent(), in
\* the order of the calls, over every batch, handle and failure, and a call
\* resolves only when its line is there.
THEOREM AppendsKeepCallOrderHolds == FileSpec => []AppendsKeepCallOrder
<1>1. FileIndInv => AppendsKeepCallOrder
  <2> SUFFICES ASSUME FileIndInv PROVE AppendsKeepCallOrder
    OBVIOUS
  <2>1. file \in Seq(Chunks) /\ Recorded
    BY DEF FileIndInv, FileTypeOK
  <2>2. \A c \in Chunks : outcome[c] = "resolved" => c \in Range(file)
    BY <2>1, InRange DEF Recorded
  <2>3. \A i, j \in 1..Len(file) : i < j =>
          \E k, l \in 1..Len(called) : k < l /\ called[k] = file[i] /\ called[l] = file[j]
    BY <2>1 DEF Recorded, Ordered, Before
  <2> QED
    BY <2>2, <2>3 DEF AppendsKeepCallOrder
<1> QED
  BY <1>1, FileIndInvHolds, PTL
-----------------------------------------------------------------------------
(***************************************************************************)
(* The processes: what holds of each by itself is preserved by every       *)
(* operator of NodeProcess; what holds of all is that of terminate().      *)
(***************************************************************************)
\* What p has read and will read, in order.
Output(pr) == pr.got \o pr.queue

InOrder(s) == \A i, j \in 1..Len(s) : i < j => s[i] < s[j]
Occurs(n, s) == \E i \in 1..Len(s) : s[i] = n

\* A process is terminated when it has closed, and its timer is off then.
Ended(pr) ==
    /\ pr.terminated <=> pr.os = "closed"
    /\ pr.timer => pr.requested /\ pr.os \in {"alive", "exited"}

\* The output is in order, none of it comes from the future, and whatever was
\* not discarded is there.
Kept(p, pr) ==
    LET all == Output(pr)
    IN  /\ InOrder(all)
        /\ ~pr.terminated => \A i \in 1..Len(all) : all[i] <= pr.arrived
        /\ \A n \in 1..pr.arrived : n > pr.cut => Occurs(n, all)
        /\ pr.terminated => Occurs(Exit(p), all)

Sound(p, pr) == pr \in ProcessRecord(p) /\ Ended(pr) /\ Kept(p, pr)

\* terminate() waits for whatever it found active and has not closed yet.
Awaited ==
    /\ ending.phase # "idle" =>
          \A p \in ending.called : p \in ending.waits \/ proc[p].os = "closed"
    /\ ending.phase = "returned" => ending.waits = {}

\* The inductive invariant.
NodeIndInv == TypeOK /\ Awaited /\ \A p \in Processes : Sound(p, proc[p])
-----------------------------------------------------------------------------
\* The numbers of a process's output and its bounds are natural numbers.
LEMMA ExitIsNat ==
    ASSUME NEW p \in Processes
    PROVE  MaxOutput[p] \in Nat /\ MaxErrors[p] \in Nat /\ Exit(p) \in Nat
           /\ Exit(p) = MaxOutput[p] + 1
BY BoundsAssumption DEF Exit

\* The first sequence of a concatenation is its beginning.
LEMMA PrefixOfConcat ==
    ASSUME NEW S, NEW s \in Seq(S), NEW t \in Seq(S)
    PROVE  /\ Len(s) \in Nat /\ Len(s \o t) \in Nat /\ Len(s) <= Len(s \o t)
           /\ \A i \in 1..Len(s) : (s \o t)[i] = s[i]
BY SMT

\* Moving the head of the second sequence behind the first changes nothing.
LEMMA ReadOn ==
    ASSUME NEW S, NEW s \in Seq(S), NEW t \in Seq(S), t # <<>>
    PROVE  /\ Append(s, Head(t)) \in Seq(S) /\ Tail(t) \in Seq(S)
           /\ Append(s, Head(t)) \o Tail(t) = s \o t
BY SMT

\* What is appended to the second sequence is appended to both.
LEMMA PushBehind ==
    ASSUME NEW S, NEW s \in Seq(S), NEW t \in Seq(S), NEW e \in S
    PROVE  s \o Append(t, e) = Append(s \o t, e)
BY SMT

\* A sequence in order stays so when something greater comes behind it.
LEMMA InOrderBehind ==
    ASSUME NEW s \in Seq(Nat), NEW e \in Nat, InOrder(s), \A i \in 1..Len(s) : s[i] < e
    PROVE  /\ InOrder(Append(s, e))
           /\ \A i \in 1..Len(Append(s, e)) : Append(s, e)[i] <= e
           /\ \A n : n = e \/ Occurs(n, s) => Occurs(n, Append(s, e))
<1>1. /\ Len(s) \in Nat /\ Len(Append(s, e)) = Len(s) + 1
      /\ Append(s, e)[Len(s) + 1] = e
      /\ \A i \in 1..Len(s) : Append(s, e)[i] = s[i] /\ s[i] \in Nat
  OBVIOUS
<1> QED
  BY <1>1 DEF InOrder, Occurs

\* A process whose output an operator leaves alone stays sound as far as the
\* rest of it does.
LEMMA UntouchedIsSound ==
    ASSUME NEW p, NEW old, NEW new, Sound(p, old), new \in ProcessRecord(p), Ended(new),
           new.got = old.got, new.queue = old.queue, new.arrived = old.arrived,
           new.cut = old.cut, new.terminated = old.terminated
    PROVE  Sound(p, new)
BY DEF Sound, Kept, Output

\* The fields that say nothing of the output may be set, as long as a process
\* that is terminated remains closed and one that is not open.
LEMMA SetFieldsAreSound ==
    ASSUME NEW p, NEW pr, Sound(p, pr)
    PROVE  /\ \A b \in BOOLEAN : /\ Sound(p, [pr EXCEPT !.writing = b])
                                 /\ [pr EXCEPT !.writing = b].os = pr.os
           /\ Sound(p, [pr EXCEPT !.timer = FALSE])
           /\ ~pr.terminated => Sound(p, [pr EXCEPT !.os = "exited"])
<1>1. ASSUME NEW b \in BOOLEAN
      PROVE  Sound(p, [pr EXCEPT !.writing = b]) /\ [pr EXCEPT !.writing = b].os = pr.os
  <2> DEFINE new == [pr EXCEPT !.writing = b]
  <2>1. new \in ProcessRecord(p) /\ Ended(new) /\ new.os = pr.os
    BY DEF Sound, ProcessRecord, Ended
  <2>2. /\ new.got = pr.got /\ new.queue = pr.queue /\ new.arrived = pr.arrived
        /\ new.cut = pr.cut /\ new.terminated = pr.terminated
    BY DEF Sound, ProcessRecord
  <2> QED
    BY <2>1, <2>2, UntouchedIsSound
<1>2. Sound(p, [pr EXCEPT !.timer = FALSE])
  <2> DEFINE new == [pr EXCEPT !.timer = FALSE]
  <2>1. new \in ProcessRecord(p) /\ Ended(new)
    BY DEF Sound, ProcessRecord, Ended
  <2>2. /\ new.got = pr.got /\ new.queue = pr.queue /\ new.arrived = pr.arrived
        /\ new.cut = pr.cut /\ new.terminated = pr.terminated
    BY DEF Sound, ProcessRecord
  <2> QED
    BY <2>1, <2>2, UntouchedIsSound
<1>3. ASSUME ~pr.terminated PROVE Sound(p, [pr EXCEPT !.os = "exited"])
  <2> DEFINE new == [pr EXCEPT !.os = "exited"]
  <2>1. new \in ProcessRecord(p) /\ Ended(new)
    BY <1>3 DEF Sound, ProcessRecord, Ended
  <2>2. /\ new.got = pr.got /\ new.queue = pr.queue /\ new.arrived = pr.arrived
        /\ new.cut = pr.cut /\ new.terminated = pr.terminated
    BY DEF Sound, ProcessRecord
  <2> QED
    BY <2>1, <2>2, UntouchedIsSound
<1> QED
  BY <1>1, <1>2, <1>3

\* Waking the reader keeps a process sound.
LEMMA RousedIsSound ==
    ASSUME NEW p \in Processes, NEW pr, Sound(p, pr)
    PROVE  Sound(p, Roused(pr)) /\ Roused(pr).terminated = pr.terminated
<1>1. CASE pr.reader # "asleep"
  <2>1. Roused(pr) = pr
    BY <1>1 DEF Sound, ProcessRecord, Roused
  <2> QED
    BY <2>1
<1>2. CASE pr.reader = "asleep"
  <2> DEFINE new == [pr EXCEPT !.reader = "ready"]
  <2>1. new \in ProcessRecord(p) /\ Ended(new)
    BY DEF Sound, ProcessRecord, Ended
  <2>2. /\ new.got = pr.got /\ new.queue = pr.queue /\ new.arrived = pr.arrived
        /\ new.cut = pr.cut /\ new.terminated = pr.terminated
    BY DEF Sound, ProcessRecord
  <2>3. Roused(pr) = new
    BY <1>2 DEF Roused
  <2> QED
    BY <2>1, <2>2, <2>3, UntouchedIsSound
<1> QED
  BY <1>1, <1>2

\* Creating the child keeps a process sound.
LEMMA StartedIsSound ==
    ASSUME NEW p \in Processes, NEW pr, Sound(p, pr)
    PROVE  /\ Sound(p, Started(pr))
           /\ Started(pr).os # "none"
           /\ Started(pr).requested = pr.requested
           /\ Started(pr).terminated = pr.terminated
<1>1. CASE pr.os # "none"
  BY <1>1 DEF Started
<1>2. CASE pr.os = "none"
  <2> DEFINE new == [pr EXCEPT !.os = "alive", !.listening = TRUE]
  <2>1. new \in ProcessRecord(p) /\ Ended(new) /\ new.os = "alive"
    BY <1>2 DEF Sound, ProcessRecord, Ended
  <2>2. /\ new.got = pr.got /\ new.queue = pr.queue /\ new.arrived = pr.arrived
        /\ new.cut = pr.cut /\ new.terminated = pr.terminated /\ new.requested = pr.requested
    BY DEF Sound, ProcessRecord
  <2>3. Started(pr) = new
    BY <1>2 DEF Started
  <2> HIDE DEF new
  <2> QED
    BY <2>1, <2>2, <2>3, UntouchedIsSound
<1> QED
  BY <1>1, <1>2

\* A signal keeps a process sound.
LEMMA SignalledIsSound ==
    ASSUME NEW p \in Processes, NEW pr, Sound(p, pr), NEW signal \in {"TERM", "KILL"}
    PROVE  /\ Sound(p, Signalled(pr, signal))
           /\ Signalled(pr, signal).os = pr.os
           /\ Signalled(pr, signal).requested = pr.requested
           /\ Signalled(pr, signal).terminated = pr.terminated
<1> DEFINE sent == IF pr.os = "alive" /\ pr.signal # "KILL" THEN signal ELSE pr.signal
           new == [pr EXCEPT !.signal = sent]
<1>1. Signalled(pr, signal) = new
  BY DEF Signalled
<1>2. sent \in {"none", "TERM", "KILL"}
  BY DEF Sound, ProcessRecord
<1> HIDE DEF sent
<1>3. new \in ProcessRecord(p) /\ Ended(new)
  BY <1>2 DEF Sound, ProcessRecord, Ended
<1>4. /\ new.got = pr.got /\ new.queue = pr.queue /\ new.arrived = pr.arrived
      /\ new.cut = pr.cut /\ new.terminated = pr.terminated
      /\ new.requested = pr.requested /\ new.os = pr.os
  BY DEF Sound, ProcessRecord
<1> HIDE DEF new
<1> QED
  BY <1>1, <1>3, <1>4, UntouchedIsSound

\* A request to end, which may discard the queue, keeps a process sound.
LEMMA RequestedIsSound ==
    ASSUME NEW p \in Processes, NEW pr, Sound(p, pr), ~pr.terminated, NEW drain \in BOOLEAN
    PROVE  /\ Sound(p, Requested(pr, drain))
           /\ Requested(pr, drain).requested
           /\ ~Requested(pr, drain).terminated
<1>1. CASE drain
  <2> DEFINE new == [pr EXCEPT !.requested = TRUE]
  <2>1. new \in ProcessRecord(p) /\ Ended(new) /\ new.requested
    BY DEF Sound, ProcessRecord, Ended
  <2>2. /\ new.got = pr.got /\ new.queue = pr.queue /\ new.arrived = pr.arrived
        /\ new.cut = pr.cut /\ new.terminated = pr.terminated
    BY DEF Sound, ProcessRecord
  <2>3. Requested(pr, drain) = new
    BY <1>1 DEF Requested, Sound, ProcessRecord
  <2> HIDE DEF new
  <2> QED
    BY <2>1, <2>2, <2>3, UntouchedIsSound
<1>2. CASE ~drain
  <2> DEFINE new == [pr EXCEPT !.requested = TRUE, !.queue = <<>>, !.cut = pr.arrived]
  <2>0. <<>> \in Seq(1..Exit(p))
    BY EmptySeq
  <2>1. new \in ProcessRecord(p) /\ Ended(new) /\ new.requested
    BY <2>0 DEF Sound, ProcessRecord, Ended
  <2>2. /\ new.got = pr.got /\ new.queue = <<>> /\ new.arrived = pr.arrived
        /\ new.cut = pr.arrived /\ ~new.terminated
    BY DEF Sound, ProcessRecord
  <2>3. Requested(pr, drain) = new
    BY <1>2 DEF Requested
  <2> HIDE DEF new
  <2>4. pr.got \in Seq(1..Exit(p)) /\ pr.queue \in Seq(1..Exit(p)) /\ pr.arrived \in Nat
    BY ExitIsNat DEF Sound, ProcessRecord
  <2>5. Output(new) = pr.got
    BY <2>2, <2>4, ConcatEmptySeq DEF Output
  <2>6. Len(pr.got) \in Nat /\ Len(Output(pr)) \in Nat /\ Len(pr.got) <= Len(Output(pr))
        /\ \A i \in 1..Len(pr.got) : Output(pr)[i] = pr.got[i]
    BY <2>4, PrefixOfConcat DEF Output
  <2>7. Kept(p, pr)
    BY DEF Sound
  <2> HIDE DEF Output
  <2>8. Kept(p, new)
    <3>1. InOrder(pr.got)
      BY <2>6, <2>7 DEF Kept, InOrder
    <3>2. \A i \in 1..Len(pr.got) : pr.got[i] <= pr.arrived
      BY <2>6, <2>7 DEF Kept
    <3>3. \A n \in 1..new.arrived : ~(n > new.cut)
      BY <2>2, <2>4
    <3> QED
      BY <2>2, <2>5, <3>1, <3>2, <3>3 DEF Kept
  <2> QED
    BY <2>1, <2>2, <2>3, <2>8 DEF Sound
<1> QED
  BY <1>1, <1>2

\* gracefullyShutdown() keeps a process sound: its timer starts only for a
\* child that lives or whose streams drain.
LEMMA ShutdownIsSound ==
    ASSUME NEW p \in Processes, NEW pr, Sound(p, pr), NEW drain \in BOOLEAN
    PROVE  /\ Sound(p, Shutdown(pr, drain))
           /\ ~pr.terminated => ~Shutdown(pr, drain).terminated
<1>1. CASE pr.requested \/ pr.terminated
  BY <1>1 DEF Shutdown
<1>2. CASE ~(pr.requested \/ pr.terminated)
  <2> DEFINE old == Signalled(Started(Requested(pr, drain)), "TERM")
             new == [old EXCEPT !.timer = TRUE]
  <2>1. Sound(p, old) /\ old.os # "none" /\ old.requested /\ ~old.terminated
    BY <1>2, RequestedIsSound, StartedIsSound, SignalledIsSound
  <2>2. Shutdown(pr, drain) = new
    BY <1>2 DEF Shutdown
  <2> HIDE DEF old
  <2>3. new \in ProcessRecord(p) /\ Ended(new)
    <3>1. old \in ProcessRecord(p) /\ Ended(old)
      BY <2>1 DEF Sound
    <3>2. new \in ProcessRecord(p)
      BY ONLY <3>1 DEF ProcessRecord
    <3>3. /\ new.os = old.os /\ new.requested = old.requested
          /\ new.terminated = old.terminated
      BY <3>1 DEF ProcessRecord
    <3>4. old.os \in {"alive", "exited", "closed", "none"}
      BY <3>1 DEF ProcessRecord
    <3> HIDE DEF new
    <3> QED BY <2>1, <3>1, <3>2, <3>3, <3>4 DEF Ended
  <2>4. /\ new.got = old.got /\ new.queue = old.queue /\ new.arrived = old.arrived
        /\ new.cut = old.cut /\ new.terminated = old.terminated
    BY <2>1 DEF Sound, ProcessRecord
  <2> HIDE DEF new
  <2> QED
    BY <2>1, <2>2, <2>3, <2>4, UntouchedIsSound
<1> QED
  BY <1>1, <1>2

\* kill() keeps a process sound.
LEMMA KilledIsSound ==
    ASSUME NEW p \in Processes, NEW pr, Sound(p, pr), NEW drain \in BOOLEAN
    PROVE  Sound(p, Killed(pr, drain))
BY RequestedIsSound, StartedIsSound, SignalledIsSound DEF Killed

\* So does the cancellation of its token.
LEMMA CancelledIsSound ==
    ASSUME NEW p \in Processes, NEW pr, Sound(p, pr), NEW force \in BOOLEAN
    PROVE  Sound(p, Cancelled(pr, force))
<1>1. CASE pr.token = "cancelled"
  BY <1>1 DEF Cancelled
<1>2. CASE pr.token # "cancelled"
  <2> DEFINE old == IF ~pr.listening THEN pr
                    ELSE IF force THEN Killed(pr, FALSE) ELSE Shutdown(pr, TRUE)
             new == [old EXCEPT !.token = "cancelled"]
  <2>1. Sound(p, old)
    BY ShutdownIsSound, KilledIsSound
  <2>2. Cancelled(pr, force) = new
    BY <1>2 DEF Cancelled
  <2> HIDE DEF old
  <2>3. new \in ProcessRecord(p) /\ Ended(new)
    <3>1. old \in ProcessRecord(p) /\ Ended(old)
      BY <2>1 DEF Sound
    <3>2. new \in ProcessRecord(p)
      BY ONLY <3>1 DEF ProcessRecord
    <3> QED BY <3>1 DEF ProcessRecord, Ended
  <2>4. /\ new.got = old.got /\ new.queue = old.queue /\ new.arrived = old.arrived
        /\ new.cut = old.cut /\ new.terminated = old.terminated
    BY <2>1 DEF Sound, ProcessRecord
  <2> HIDE DEF new
  <2> QED
    BY <2>1, <2>2, <2>3, <2>4, UntouchedIsSound
<1> QED
  BY <1>1, <1>2

\* A turn of the reader moves the output on without changing it.
LEMMA TurnedIsSound ==
    ASSUME NEW p \in Processes, NEW pr, Sound(p, pr)
    PROVE  Sound(p, Turned(pr))
<1>1. CASE pr.queue # <<>>
  <2> DEFINE new == [pr EXCEPT !.reader = "busy", !.queue = Tail(pr.queue),
                               !.got = Append(pr.got, Head(pr.queue))]
  <2>1. pr.got \in Seq(1..Exit(p)) /\ pr.queue \in Seq(1..Exit(p))
    BY DEF Sound, ProcessRecord
  <2>2. /\ Append(pr.got, Head(pr.queue)) \in Seq(1..Exit(p))
        /\ Tail(pr.queue) \in Seq(1..Exit(p))
        /\ Append(pr.got, Head(pr.queue)) \o Tail(pr.queue) = Output(pr)
    BY <1>1, <2>1, ReadOn DEF Output
  <2>3. new \in ProcessRecord(p) /\ Ended(new)
    BY <2>2 DEF Sound, ProcessRecord, Ended
  <2>4. /\ new.got = Append(pr.got, Head(pr.queue)) /\ new.queue = Tail(pr.queue)
        /\ new.arrived = pr.arrived /\ new.cut = pr.cut /\ new.terminated = pr.terminated
    BY DEF Sound, ProcessRecord
  <2>5. Turned(pr) = new
    BY <1>1 DEF Turned
  <2> HIDE DEF new
  <2>6. Output(new) = Output(pr)
    BY <2>2, <2>4 DEF Output
  <2>7. Kept(p, new)
    BY <2>4, <2>6 DEF Sound, Kept
  <2> QED
    BY <2>3, <2>5, <2>7 DEF Sound
<1>2. CASE pr.queue = <<>>
  <2> DEFINE place == IF ~pr.terminated THEN "asleep"
                      ELSE IF pr.errors > 0 THEN "threw" ELSE "ended"
             new == [pr EXCEPT !.reader = place]
  <2>1. Turned(pr) = new
    BY <1>2 DEF Turned
  <2>2. place \in {"asleep", "threw", "ended"}
    OBVIOUS
  <2> HIDE DEF place
  <2>3. new \in ProcessRecord(p) /\ Ended(new)
    BY <2>2 DEF Sound, ProcessRecord, Ended
  <2>4. /\ new.got = pr.got /\ new.queue = pr.queue /\ new.arrived = pr.arrived
        /\ new.cut = pr.cut /\ new.terminated = pr.terminated
    BY DEF Sound, ProcessRecord
  <2> HIDE DEF new
  <2> QED
    BY <2>1, <2>3, <2>4, UntouchedIsSound
<1> QED
  BY <1>1, <1>2

\* A chunk of output that arrives goes to the end of the queue.
LEMMA PushedIsSound ==
    ASSUME NEW p \in Processes, NEW pr, Sound(p, pr), ~pr.terminated,
           pr.arrived < MaxOutput[p]
    PROVE  Sound(p, Pushed(pr))
<1> DEFINE next == pr.arrived + 1
           new == [pr EXCEPT !.arrived = next, !.queue = Append(pr.queue, next)]
<1>1. pr.got \in Seq(1..Exit(p)) /\ pr.queue \in Seq(1..Exit(p)) /\ pr.arrived \in Nat
  BY ExitIsNat DEF Sound, ProcessRecord
<1>2. next \in 1..Exit(p) /\ next \in 0..MaxOutput[p]
  BY <1>1, ExitIsNat
<1>6. Pushed(pr) = Roused(new)
  BY DEF Pushed
<1> HIDE DEF next
<1>3. /\ Append(pr.queue, next) \in Seq(1..Exit(p))
      /\ pr.got \o Append(pr.queue, next) = Append(Output(pr), next)
      /\ Output(pr) \in Seq(1..Exit(p))
  <2> DEFINE S == 1..Exit(p)
  <2>1. pr.got \in Seq(S) /\ pr.queue \in Seq(S) /\ next \in S
    BY <1>1, <1>2
  <2> HIDE DEF S
  <2>2. Append(pr.queue, next) \in Seq(S) /\ pr.got \o pr.queue \in Seq(S)
    BY <2>1
  <2>3. \A s, t \in Seq(S) : \A e \in S : s \o Append(t, e) = Append(s \o t, e)
    BY PushBehind
  <2>4. pr.got \o Append(pr.queue, next) = Append(pr.got \o pr.queue, next)
    BY <2>1, <2>3, Zenon
  <2> QED
    BY <2>2, <2>4 DEF S, Output
<1>4. new \in ProcessRecord(p) /\ Ended(new)
  BY <1>2, <1>3 DEF Sound, ProcessRecord, Ended
<1>5. /\ new.got = pr.got /\ new.queue = Append(pr.queue, next) /\ new.arrived = next
      /\ new.cut = pr.cut /\ ~new.terminated
  BY DEF Sound, ProcessRecord
<1> HIDE DEF new
<1>7. Output(new) = Append(Output(pr), next)
  BY <1>3, <1>5 DEF Output
<1>8. Kept(p, new)
  <2>1. Output(pr) \in Seq(Nat) /\ next = pr.arrived + 1 /\ next \in Nat
    BY <1>1, <1>3, ExitIsNat DEF next
  <2>2. Kept(p, pr)
    BY DEF Sound
  <2>3. InOrder(Output(pr)) /\ \A i \in 1..Len(Output(pr)) : Output(pr)[i] < next
    BY <1>1, <2>1, <2>2 DEF Kept, InOrder
  <2>4. /\ InOrder(Output(new))
        /\ \A i \in 1..Len(Output(new)) : Output(new)[i] <= next
        /\ \A n : n = next \/ Occurs(n, Output(pr)) => Occurs(n, Output(new))
    BY <1>1, <1>7, <2>1, <2>3, InOrderBehind
  <2>5. \A n \in 1..new.arrived : n > new.cut => Occurs(n, Output(new))
    BY <1>1, <1>5, <2>1, <2>2, <2>4 DEF Kept
  <2> QED
    BY <1>5, <2>4, <2>5 DEF Kept
<1> QED
  BY <1>4, <1>6, <1>8, RousedIsSound DEF Sound

\* The end of the child puts the exit event behind all of its output.
LEMMA ClosedIsSound ==
    ASSUME NEW p \in Processes, NEW pr, Sound(p, pr), ~pr.terminated
    PROVE  Sound(p, Closed(pr, Exit(p))) /\ Closed(pr, Exit(p)).os = "closed"
<1> DEFINE new == [pr EXCEPT !.os = "closed", !.terminated = TRUE, !.listening = FALSE,
                             !.timer = FALSE, !.queue = Append(pr.queue, Exit(p))]
<1>1. pr.got \in Seq(1..Exit(p)) /\ pr.queue \in Seq(1..Exit(p)) /\ pr.arrived \in Nat
      /\ pr.arrived < Exit(p)
  BY ExitIsNat DEF Sound, ProcessRecord
<1>2. Exit(p) \in 1..Exit(p)
  BY ExitIsNat
<1>3. /\ Append(pr.queue, Exit(p)) \in Seq(1..Exit(p))
      /\ pr.got \o Append(pr.queue, Exit(p)) = Append(Output(pr), Exit(p))
      /\ Output(pr) \in Seq(1..Exit(p))
  <2> DEFINE S == 1..Exit(p)
  <2>1. pr.got \in Seq(S) /\ pr.queue \in Seq(S) /\ Exit(p) \in S
    BY <1>1, <1>2
  <2> HIDE DEF S
  <2>2. Append(pr.queue, Exit(p)) \in Seq(S) /\ pr.got \o pr.queue \in Seq(S)
    BY <2>1
  <2>3. \A s, t \in Seq(S) : \A e \in S : s \o Append(t, e) = Append(s \o t, e)
    BY PushBehind
  <2>4. pr.got \o Append(pr.queue, Exit(p)) = Append(pr.got \o pr.queue, Exit(p))
    BY <2>1, <2>3, Zenon
  <2> QED
    BY <2>2, <2>4 DEF S, Output
<1>4. new \in ProcessRecord(p) /\ Ended(new) /\ new.os = "closed"
  BY <1>3 DEF Sound, ProcessRecord, Ended
<1>5. /\ new.got = pr.got /\ new.queue = Append(pr.queue, Exit(p)) /\ new.arrived = pr.arrived
      /\ new.cut = pr.cut /\ new.terminated
  BY DEF Sound, ProcessRecord
<1>6. Closed(pr, Exit(p)) = Roused(new)
  BY DEF Closed
<1>7. Roused(new).os = "closed"
  BY <1>4 DEF Roused, ProcessRecord
<1> HIDE DEF new
<1>8. Output(new) = Append(Output(pr), Exit(p))
  BY <1>3, <1>5 DEF Output
<1>9. Kept(p, new)
  <2>1. Output(pr) \in Seq(Nat) /\ Exit(p) \in Nat
    BY <1>3, ExitIsNat
  <2>2. Kept(p, pr)
    BY DEF Sound
  <2>3. InOrder(Output(pr)) /\ \A i \in 1..Len(Output(pr)) : Output(pr)[i] < Exit(p)
    BY <1>1, <2>1, <2>2 DEF Kept
  <2>4. /\ InOrder(Output(new))
        /\ \A n : n = Exit(p) \/ Occurs(n, Output(pr)) => Occurs(n, Output(new))
    BY <1>8, <2>1, <2>3, InOrderBehind
  <2>5. \A n \in 1..new.arrived : n > new.cut => Occurs(n, Output(new))
    BY <1>5, <2>2, <2>4 DEF Kept
  <2> QED
    BY <1>5, <2>4, <2>5 DEF Kept
<1> QED
  BY <1>4, <1>6, <1>7, <1>9, RousedIsSound DEF Sound

\* An error is noted and the child asked to end.
LEMMA FailedIsSound ==
    ASSUME NEW p \in Processes, NEW pr, Sound(p, pr), pr.errors < MaxErrors[p]
    PROVE  /\ Sound(p, Failed(pr))
           /\ ~pr.terminated => ~Failed(pr).terminated
<1> DEFINE new == [pr EXCEPT !.errors = pr.errors + 1]
<1>1. pr.errors + 1 \in 0..MaxErrors[p]
  BY ExitIsNat DEF Sound, ProcessRecord
<1>2. new \in ProcessRecord(p) /\ Ended(new)
  BY <1>1 DEF Sound, ProcessRecord, Ended
<1>3. /\ new.got = pr.got /\ new.queue = pr.queue /\ new.arrived = pr.arrived
      /\ new.cut = pr.cut /\ new.terminated = pr.terminated
  BY DEF Sound, ProcessRecord
<1>4. Failed(pr) = Shutdown(Roused(new), TRUE)
  BY DEF Failed
<1> HIDE DEF new
<1> QED
  BY <1>2, <1>3, <1>4, UntouchedIsSound, RousedIsSound, ShutdownIsSound

\* A process that has closed stays closed.
LEMMA ClosedStays ==
    ASSUME NEW p \in Processes, NEW pr, Sound(p, pr), pr.os = "closed"
    PROVE  /\ Started(pr).os = "closed" /\ Turned(pr).os = "closed"
           /\ \A b \in BOOLEAN : /\ Shutdown(pr, b) = pr /\ Killed(pr, b) = pr
                                 /\ Cancelled(pr, b).os = "closed"
<1>1. pr.terminated
  BY DEF Sound, Ended
<1>2. Started(pr) = pr
  BY DEF Started
<1>3. Turned(pr).os = "closed"
  BY <1>1 DEF Turned, Sound, ProcessRecord
<1>4. \A b \in BOOLEAN : Shutdown(pr, b) = pr /\ Killed(pr, b) = pr
  BY <1>1 DEF Shutdown, Killed
<1>5. ASSUME NEW b \in BOOLEAN PROVE Cancelled(pr, b).os = "closed"
  BY <1>4 DEF Cancelled, Sound, ProcessRecord
<1> QED
  BY <1>2, <1>3, <1>4, <1>5
-----------------------------------------------------------------------------
\* The initial state satisfies the invariant.
LEMMA NodeInitIndInv == Init => NodeIndInv
<1> SUFFICES ASSUME Init PROVE NodeIndInv
  OBVIOUS
<1>1. ASSUME NEW p \in Processes PROVE Sound(p, proc[p])
  <2>1. proc[p] = NewProcess
    BY DEF Init
  <2>2. NewProcess \in ProcessRecord(p) /\ Ended(NewProcess)
    BY ExitIsNat, EmptySeq DEF NewProcess, ProcessRecord, Ended
  <2>3. NewProcess.arrived = 0 /\ Output(NewProcess) = <<>> /\ ~NewProcess.terminated
    BY EmptySeq, ConcatEmptySeq DEF NewProcess, Output
  <2>4. Kept(p, NewProcess)
    BY <2>3 DEF Kept, InOrder, Occurs
  <2> QED
    BY <2>1, <2>2, <2>4 DEF Sound
<1>2. TypeOK
  BY <1>1 DEF Init, TypeOK, Sound
<1> QED
  BY <1>1, <1>2 DEF Init, NodeIndInv, Awaited

\* A step of process p that leaves its system alone keeps the invariant if it
\* keeps p sound and does not reopen it.
LEMMA BecomesKeepsNode ==
    ASSUME NodeIndInv, NEW p \in Processes, NEW pr, Becomes(p, pr), Sound(p, pr),
           proc[p].os = "closed" => pr.os = "closed"
    PROVE  NodeIndInv'
<1>1. proc' = [proc EXCEPT ![p] = pr] /\ UNCHANGED <<active, spawned, baseToken, ending>>
  BY DEF Becomes
<1>2. DOMAIN proc = Processes
  BY DEF NodeIndInv, TypeOK
<1>3. \A q \in Processes : proc'[q] = IF q = p THEN pr ELSE proc[q]
  BY <1>1, <1>2
<1>4. \A q \in Processes : Sound(q, proc'[q])
  BY <1>3 DEF NodeIndInv
<1>5. TypeOK'
  BY <1>1, <1>2, <1>4 DEF NodeIndInv, TypeOK, Sound
<1>6. Awaited'
  BY <1>1, <1>3 DEF NodeIndInv, TypeOK, Awaited
<1> QED
  BY <1>4, <1>5, <1>6 DEF NodeIndInv

\* Every step keeps the invariant.
LEMMA NodeNextIndInv == NodeIndInv /\ [Next]_vars => NodeIndInv'
<1> SUFFICES ASSUME NodeIndInv, [Next]_vars PROVE NodeIndInv'
  OBVIOUS
<1> USE DEF NodeIndInv
<1>1. CASE UNCHANGED vars
  BY <1>1 DEF vars, TypeOK, Awaited
<1>2. ASSUME NEW p \in Processes, Spawn(p) PROVE NodeIndInv'
  BY <1>2 DEF Spawn, TypeOK, Awaited
<1>3. ASSUME NEW p \in Processes, ReadStream(p) PROVE NodeIndInv'
  BY <1>3, StartedIsSound, TurnedIsSound, ClosedStays, BecomesKeepsNode DEF ReadStream
<1>4. ASSUME NEW p \in Processes, ReadNext(p) PROVE NodeIndInv'
  BY <1>4, TurnedIsSound, ClosedStays, BecomesKeepsNode DEF ReadNext
<1>5. ASSUME NEW p \in Processes, Write(p) PROVE NodeIndInv'
  <2> DEFINE old == Started(proc[p])
             new == [old EXCEPT !.writing = TRUE]
  <2>1. Sound(p, old) /\ ~old.terminated /\ proc[p].os # "closed"
    BY <1>5, StartedIsSound DEF Write, Sound, Ended
  <2>2. Becomes(p, new)
    BY <1>5 DEF Write
  <2> HIDE DEF old
  <2>3. Sound(p, new)
    BY <2>1, SetFieldsAreSound
  <2> QED
    BY <2>1, <2>2, <2>3, BecomesKeepsNode
<1>6. ASSUME NEW p \in Processes, Written(p) PROVE NodeIndInv'
  <2> DEFINE new == [proc[p] EXCEPT !.writing = FALSE]
  <2>1. Sound(p, new) /\ new.os = proc[p].os
    BY SetFieldsAreSound
  <2> QED
    BY <1>6, <2>1, BecomesKeepsNode DEF Written
<1>7. ASSUME NEW p \in Processes, NEW b \in BOOLEAN, GracefullyShutdown(p, b) PROVE NodeIndInv'
  BY <1>7, ShutdownIsSound, ClosedStays, BecomesKeepsNode DEF GracefullyShutdown
<1>8. ASSUME NEW p \in Processes, NEW b \in BOOLEAN, Kill(p, b) PROVE NodeIndInv'
  BY <1>8, KilledIsSound, ClosedStays, BecomesKeepsNode DEF Kill
<1>9. ASSUME NEW p \in Processes, NEW b \in BOOLEAN, Cancel(p, b) PROVE NodeIndInv'
  BY <1>9, CancelledIsSound, ClosedStays, BecomesKeepsNode DEF Cancel
<1>10. ASSUME NEW p \in Processes, Timeout(p) PROVE NodeIndInv'
  <2> DEFINE old == Signalled(proc[p], "KILL")
             new == [old EXCEPT !.timer = FALSE]
  <2>1. Sound(p, old) /\ proc[p].os # "closed"
    BY <1>10, SignalledIsSound DEF Timeout, Sound, Ended
  <2>2. Becomes(p, new)
    BY <1>10 DEF Timeout
  <2> HIDE DEF old
  <2>3. Sound(p, new)
    BY <2>1, SetFieldsAreSound
  <2> QED
    BY <2>1, <2>2, <2>3, BecomesKeepsNode
<1>11. ASSUME NEW p \in Processes, Data(p) PROVE NodeIndInv'
  <2>1. ~proc[p].terminated /\ proc[p].os # "closed"
    BY <1>11 DEF Data, Sound, Ended
  <2> QED
    BY <1>11, <2>1, PushedIsSound, BecomesKeepsNode DEF Data
<1>12. ASSUME NEW p \in Processes, StreamError(p) PROVE NodeIndInv'
  <2>1. ~proc[p].terminated /\ proc[p].os # "closed" /\ proc[p].errors < MaxErrors[p]
    BY <1>12 DEF StreamError, Sound, Ended
  <2> DEFINE old == Failed(proc[p])
  <2>2. Sound(p, old) /\ ~old.terminated
    BY <2>1, FailedIsSound
  <2>3. PICK fatal \in BOOLEAN :
           Becomes(p, [old EXCEPT !.os = IF fatal THEN "exited" ELSE @])
    BY <1>12 DEF StreamError
  <2> DEFINE new == [old EXCEPT !.os = IF fatal THEN "exited" ELSE old.os]
  <2>4. Becomes(p, new)
    BY <2>3
  <2> HIDE DEF old
  <2>5. Sound(p, new)
    <3>1. CASE fatal
      BY <2>2, <3>1, SetFieldsAreSound
    <3>2. CASE ~fatal
      <4>1. new = old
        BY <2>2, <3>2 DEF Sound, ProcessRecord
      <4> QED
        BY <2>2, <4>1
    <3> QED
      BY <3>1, <3>2
  <2> QED
    BY <2>1, <2>4, <2>5, BecomesKeepsNode
<1>13. ASSUME NEW p \in Processes, Ends(p) PROVE NodeIndInv'
  <2> DEFINE new == [proc[p] EXCEPT !.os = "exited"]
  <2>1. ~proc[p].terminated /\ proc[p].os # "closed"
    BY <1>13 DEF Ends, Sound, Ended
  <2>2. Sound(p, new)
    BY <2>1, SetFieldsAreSound
  <2> QED
    BY <1>13, <2>1, <2>2, BecomesKeepsNode DEF Ends
<1>14. ASSUME NEW p \in Processes, Close(p) PROVE NodeIndInv'
  <2>1. ~proc[p].terminated
    BY <1>14 DEF Close, Sound, Ended
  <2>2. Sound(p, Closed(proc[p], Exit(p))) /\ Closed(proc[p], Exit(p)).os = "closed"
    BY <2>1, ClosedIsSound
  <2>3. \A q \in Processes : proc'[q] = IF q = p THEN Closed(proc[p], Exit(p)) ELSE proc[q]
    BY <1>14 DEF Close, TypeOK
  <2>4. \A q \in Processes : Sound(q, proc'[q])
    BY <2>2, <2>3
  <2>5. TypeOK'
    BY <1>14, <2>4 DEF Close, TypeOK, Sound
  <2>6. Awaited'
    BY <1>14, <2>2, <2>3 DEF Close, TypeOK, Awaited
  <2> QED
    BY <2>4, <2>5, <2>6
<1>15. ASSUME NEW force \in BOOLEAN, Terminate(force) PROVE NodeIndInv'
  <2>1. \A q \in Processes :
           proc'[q] = IF q \in active THEN Cancelled(proc[q], force) ELSE proc[q]
    BY <1>15 DEF Terminate
  <2>2. \A q \in Processes : Sound(q, proc'[q])
    BY <2>1, CancelledIsSound
  <2>3. Unheard \subseteq Processes
    BY DEF Unheard, TypeOK
  <2>4. TypeOK'
    BY <1>15, <2>2, <2>3 DEF Terminate, TypeOK, Sound
  <2>5. Awaited'
    BY <1>15 DEF Terminate, Awaited
  <2> QED
    BY <2>2, <2>4, <2>5
<1>16. CASE TerminateReturns
  BY <1>16 DEF TerminateReturns, TypeOK, Awaited
<1>17. CASE Over
  BY <1>1, <1>17 DEF Over
<1> QED
  BY <1>1, <1>2, <1>3, <1>4, <1>5, <1>6, <1>7, <1>8, <1>9, <1>10, <1>11, <1>12, <1>13,
     <1>14, <1>15, <1>16, <1>17 DEF Next

\* What holds of every process, and of what terminate() waits for.
THEOREM NodeIndInvHolds == Spec => []NodeIndInv
  BY NodeInitIndInv, NodeNextIndInv, PTL DEF Spec
-----------------------------------------------------------------------------
\* The variables keep their types.
THEOREM TypeOKHolds == Spec => []TypeOK
<1>1. NodeIndInv => TypeOK
  BY DEF NodeIndInv
<1> QED
  BY <1>1, NodeIndInvHolds, PTL

\* readStream() of every process yields what the process wrote in order, once,
\* with the exit event last, unless a request discarded it.
THEOREM OutputIsKeptHolds == Spec => []OutputIsKept
<1>1. ASSUME NodeIndInv, NEW p \in Processes
      PROVE  LET all == proc[p].got \o proc[p].queue
                 due == {n \in 1..proc[p].arrived : n > proc[p].cut}
                        \cup (IF proc[p].terminated THEN {Exit(p)} ELSE {})
             IN  /\ \A i, j \in 1..Len(all) : i < j => all[i] < all[j]
                 /\ due \subseteq Range(all)
  <2> DEFINE all == Output(proc[p])
  <2>1. Kept(p, proc[p]) /\ proc[p] \in ProcessRecord(p)
    BY <1>1 DEF NodeIndInv, Sound
  <2>2. all \in Seq(1..Exit(p))
    BY <2>1 DEF Output, ProcessRecord
  <2>3. \A n : Occurs(n, all) => n \in Range(all)
    BY <2>2 DEF Occurs, Range
  <2> QED
    BY <2>1, <2>3 DEF Kept, InOrder, Output
<1>2. NodeIndInv => OutputIsKept
  BY <1>1 DEF OutputIsKept
<1> QED
  BY <1>2, NodeIndInvHolds, PTL

\* The timer of gracefullyShutdown() never runs for a process that has closed.
THEOREM TimerRunsWhileAliveHolds == Spec => []TimerRunsWhileAlive
<1>1. NodeIndInv => TimerRunsWhileAlive
  BY DEF NodeIndInv, Sound, Ended, TimerRunsWhileAlive
<1> QED
  BY <1>1, NodeIndInvHolds, PTL

\* terminate() returns only when everything it found active has closed.
THEOREM TerminateWaitsForAllHolds == Spec => []TerminateWaitsForAll
<1>1. NodeIndInv => TerminateWaitsForAll
  BY DEF NodeIndInv, Awaited, TerminateWaitsForAll
<1> QED
  BY <1>1, NodeIndInvHolds, PTL

(***************************************************************************)
(* A reaction's pipeline: where a run stands follows from what it executed.*)
(***************************************************************************)
Executed == [at : Nat, ok : BOOLEAN]
Emission == [event : Nat, at : Nat, kind : {"emit", "observation"}, from : Nat]
StepTypes == {"invoke", "emit", "map", "assert", "error", "case"}

\* The greatest element of a set of numbers is the one that bounds it.
LEMMA GreatestIsMax ==
  ASSUME NEW S \in SUBSET Nat, NEW m \in S, \A k \in S : k <= m
  PROVE  Max(S) = m
<1>1. \A x \in S : (\A y \in S : x >= y) => x = m
  OBVIOUS
<1> QED BY <1>1 DEF Max

\* One more executed step adds its own result, if it makes one.
LEMMA MadeByOneMore ==
  ASSUME NEW steps, NEW executed \in Seq(Executed), NEW e \in Executed, NEW p
  PROVE  MadeBefore(steps, Append(executed, e), p) =
           MadeBefore(steps, executed, p) \cup (IF Makes(steps, e) /\ e.at < p THEN {e.at} ELSE {})
<1> DEFINE more == Append(executed, e)
           n == Len(executed)
<1>1. /\ n \in Nat /\ Len(more) = n + 1 /\ more[n + 1] = e
      /\ \A i \in 1..n : more[i] = executed[i]
  BY AppendProperties
<1> HIDE DEF more, n
<1>2. 1..Len(more) = 1..n \cup {n + 1}
  BY <1>1
<1>3. MadeBefore(steps, more, p) =
        MadeBefore(steps, executed, p) \cup (IF Makes(steps, e) /\ e.at < p THEN {e.at} ELSE {})
  BY <1>1, <1>2 DEF MadeBefore, n
<1> QED BY <1>3 DEF more

\* Of a run that is at position p, everything was made before p.
LEMMA MadeBehind ==
  ASSUME NEW steps, NEW executed \in Seq(Executed), NEW p \in Nat \ {0},
         \A k \in 1..Len(executed) : executed[k].at < p
  PROVE  /\ MadeBefore(steps, executed, p) \subseteq 0..(p - 1)
         /\ MadeBefore(steps, executed, p + 1) = MadeBefore(steps, executed, p)
<1>1. \A k \in 1..Len(executed) : executed[k] \in Executed
  BY ElementOfSeq
<1> USE DEF Executed
<1>2. \A k \in 1..Len(executed) : executed[k].at \in 0..(p - 1) /\ executed[k].at < p + 1
  BY <1>1
<1> QED BY <1>2 DEF MadeBefore

\* The steps of a pipeline.
LEMMA PipelineSteps ==
  ASSUME ReactionTypeOK
  PROVE  /\ Len(pipeline) \in Nat
         /\ Positions \subseteq Nat \ {0}
         /\ \A p \in Positions : pipeline[p].type \in StepTypes
         /\ Handlers = {p \in Positions : pipeline[p].type = "error"}
<1>1. \A s \in Steps : s.type \in StepTypes
  BY DEF Steps, Cases, StepOf, PipelineActions, StepTypes
<1>2. pipeline \in Seq(Steps)
  BY DEF ReactionTypeOK
<1>3. \A p \in Positions : pipeline[p] \in Steps
  BY <1>2, ElementOfSeq DEF Positions
<1> QED BY <1>1, <1>2, <1>3 DEF Positions, Handlers

\* A reaction that was just built satisfies the invariant.
LEMMA ReactionInitIndInv ==
  ASSUME NEW steps \in Pipelines, ReactionInit(steps)
  PROVE  ReactionIndInv
<1>1. PICK n \in 0..MaxSteps : steps \in [1..n -> Steps]
  BY DEF Pipelines, SeqOf
<1>2. steps \in Seq(Steps)
  BY <1>1, ReactionAssumption, SequenceOfLength
<1>3. ReactionTypeOK
  BY <1>2, EmptySeq DEF ReactionInit, ReactionTypeOK
<1>4. RunsOnTwoTracks /\ RunsAhead /\ EmittedBehind
  BY DEF ReactionInit, RunsOnTwoTracks, RunsAhead, EmittedBehind
<1> QED BY <1>3, <1>4 DEF ReactionIndInv

\* RunsOnTwoTracks for any sequence of executed steps, and how it follows from it.
Tracked(executed) ==
    \A k \in 1..Len(executed) :
        LET from == IF k = 1 THEN 0 ELSE executed[k - 1].at
            ok == k = 1 \/ executed[k - 1].ok
        IN  executed[k].at \in Track(from, ok) /\ \A q \in Track(from, ok) : executed[k].at <= q

\* A run keeps to its tracks when its new log does.
LEMMA TracksKept ==
  ASSUME UNCHANGED pipeline, Tracked(log'),
         status' = "waiting" => Track(Last(log').at, Last(log').ok) = {}
  PROVE  RunsOnTwoTracks'
<1>1. Positions' = Positions /\ Handlers' = Handlers
  BY DEF Positions, Handlers
<1> QED BY <1>1 DEF RunsOnTwoTracks, Tracked, Track

\* The position of the step that a run goes to after these.
NextOf(executed, at) ==
    LET from == IF executed = <<>> THEN 0 ELSE Last(executed).at
        ok == executed = <<>> \/ Last(executed).ok
    IN  at \in Track(from, ok) /\ \A q \in Track(from, ok) : at <= q

\* The steps already executed keep to their tracks, and so does one that is the
\* next of its track.
LEMMA TrackedByOneMore ==
  ASSUME NEW executed \in Seq(Executed), NEW e \in Executed,
         Tracked(executed), NextOf(executed, e.at)
  PROVE  /\ Tracked(Append(executed, e))
         /\ Append(executed, e) \in Seq(Executed) /\ Append(executed, e) # <<>>
         /\ Last(Append(executed, e)) = e
         /\ \A k \in 1..Len(Append(executed, e)) :
                \/ k \in 1..Len(executed) /\ Append(executed, e)[k] = executed[k]
                \/ Append(executed, e)[k] = e
<1> DEFINE n == Len(executed)
           more == Append(executed, e)
<1>1. /\ n \in Nat /\ Len(more) = n + 1 /\ more[n + 1] = e /\ more \in Seq(Executed)
      /\ \A i \in 1..n : more[i] = executed[i]
  BY AppendProperties
<1>2. executed = <<>> <=> n = 0
  BY EmptySeq
<1>3. Last(executed) = executed[n]
  BY DEF Last
<1> HIDE DEF more
<1>4. Last(more) = e /\ more # <<>>
  BY <1>1, EmptySeq DEF Last
<1>5. ASSUME NEW k \in 1..Len(more)
      PROVE  LET from == IF k = 1 THEN 0 ELSE more[k - 1].at
                 ok == k = 1 \/ more[k - 1].ok
             IN  more[k].at \in Track(from, ok) /\ \A q \in Track(from, ok) : more[k].at <= q
  <2>1. CASE k \in 1..n
    <3>1. more[k] = executed[k] /\ (k # 1 => more[k - 1] = executed[k - 1])
      BY <1>1, <2>1
    <3> QED BY <2>1, <3>1 DEF Tracked
  <2>2. CASE k = n + 1
    <3>1. k = 1 <=> executed = <<>>
      BY <1>1, <1>2, <2>2
    <3>2. k # 1 => more[k - 1] = Last(executed)
      <4>1. k # 1 => n \in 1..n /\ k - 1 = n
        BY <1>1, <2>2
      <4> QED BY <1>1, <1>3, <4>1
    <3>3. more[k] = e
      BY <1>1, <2>2
    <3> QED BY <3>1, <3>2, <3>3 DEF NextOf
  <2> QED BY <1>1, <2>1, <2>2
<1>6. \A k \in 1..Len(more) : (k \in 1..n /\ more[k] = executed[k]) \/ more[k] = e
  BY <1>1
<1>7. Tracked(more)
  BY <1>5 DEF Tracked
<1> QED BY <1>1, <1>4, <1>6, <1>7 DEF more

\* The next step of a run that is not over is the next one of its track.
LEMMA NextOnTrack ==
  ASSUME ReactionIndInv, status = "running", step \in Positions \ Handlers
  PROVE  NextOf(log, step)
<1> DEFINE behind == IF log = <<>> THEN 0 ELSE Last(log).at
<1>1. log \in Seq(Executed) /\ step \in Nat \ {0}
  BY DEF ReactionIndInv, ReactionTypeOK, Executed
<1>2. behind \in Nat /\ behind < step
  <2>1. CASE log = <<>>
    BY <1>1, <2>1
  <2>2. CASE log # <<>>
    <3>1. Len(log) \in 1..Len(log)
      BY <1>1, <2>2, LenProperties, EmptySeq
    <3>2. log[Len(log)] \in Executed
      BY <1>1, <3>1, ElementOfSeq
    <3> QED BY <2>2, <3>1, <3>2 DEF Last, ReactionIndInv, RunsAhead, Executed
  <2> QED BY <2>1, <2>2
<1>3. \A q \in Positions : behind < q /\ q < step => q \in Handlers
  <2>1. \A q \in Positions : q \in Nat /\ q # 0
    BY PipelineSteps DEF ReactionIndInv
  <2> QED BY <2>1 DEF ReactionIndInv, RunsAhead
<1>4. log = <<>> \/ Last(log).ok
  BY DEF ReactionIndInv, RunsAhead
<1> HIDE DEF behind
<1>5. step \in Track(behind, TRUE) /\ \A q \in Track(behind, TRUE) : step <= q
  BY <1>1, <1>2, <1>3, PipelineSteps DEF Track, ReactionIndInv
<1> QED BY <1>4, <1>5 DEF NextOf, behind

\* What EmittedBehind says of the i-th event.
EmissionBehind(i) ==
    /\ emitted[i].event <= received
    /\ emitted[i].event = received =>
          /\ status = "running" => emitted[i].at < step
          /\ emitted[i].kind = "emit" => emitted[i].from = ResultAt(emitted[i].at)

\* What was emitted stays behind, and keeps its result, when the run goes on.
LEMMA EmittedStaysBehind ==
  ASSUME ReactionIndInv, status = "running",
         \A p \in Nat : p <= step => MadeBefore(pipeline', log', p) = MadeBefore(pipeline, log, p),
         UNCHANGED <<pipeline, received>>,
         status' = "running" => step < step' /\ step' \in Nat,
         \/ UNCHANGED emitted
         \/ status' = "running" /\ \E kind \in {"emit", "observation"} : Yielded(kind)
  PROVE  EmittedBehind' /\ emitted' \in Seq(Emission)
<1>1. /\ emitted \in Seq(Emission) /\ step \in Nat \ {0} /\ received \in Nat /\ value \in Nat
  BY DEF ReactionIndInv, ReactionTypeOK, Emission
<1>2. ASSUME NEW p \in Nat, p <= step
      PROVE  MadeBefore(pipeline', log', p) = MadeBefore(pipeline, log, p)
  BY <1>2
<1>3. ASSUME NEW i \in 1..Len(emitted), emitted'[i] = emitted[i]
      PROVE  EmissionBehind(i)'
  <2>1. emitted[i] \in Emission
    BY <1>1, <1>3, ElementOfSeq
  <2>2. emitted[i].at \in Nat
    BY <2>1 DEF Emission
  <2>3. emitted[i].event = received => emitted[i].at < step
    BY DEF ReactionIndInv, EmittedBehind
  <2>4. emitted[i].event = received =>
          MadeBefore(pipeline', log', emitted'[i].at) = MadeBefore(pipeline, log, emitted[i].at)
    <3> DEFINE p == emitted[i].at
    <3>1. p \in Nat /\ (emitted[i].event = received => p <= step)
      BY <1>1, <2>2, <2>3
    <3> HIDE DEF p
    <3>2. emitted[i].event = received => MadeBefore(pipeline', log', p) = MadeBefore(pipeline, log, p)
      BY <1>2, <3>1
    <3> QED BY <1>3, <3>2 DEF p
  <2>5. emitted[i].event <= received
    BY DEF ReactionIndInv, EmittedBehind
  <2>6. emitted[i].event = received /\ emitted[i].kind = "emit" =>
          emitted[i].from = Max({0} \cup MadeBefore(pipeline', log', emitted'[i].at))
    BY <2>4 DEF ReactionIndInv, EmittedBehind, ResultAt
  <2>7. emitted[i].event = received /\ status' = "running" => emitted[i].at < step'
    BY <1>1, <2>2, <2>3
  <2> QED BY <1>3, <2>5, <2>6, <2>7 DEF EmissionBehind, ResultAt
<1>4. CASE UNCHANGED emitted
  BY <1>1, <1>3, <1>4 DEF EmittedBehind, EmissionBehind
<1>5. ASSUME NEW kind \in {"emit", "observation"}, status' = "running", Yielded(kind)
      PROVE  EmittedBehind' /\ emitted' \in Seq(Emission)
  <2> DEFINE new == [event |-> received, at |-> step, kind |-> kind, from |-> value]
  <2>0. PICK n \in Nat : n = Len(emitted)
    BY <1>1, LenProperties
  <2>1. emitted' = Append(emitted, new) /\ new \in Emission
    BY <1>1, <1>5 DEF Yielded, Emission
  <2>2. /\ new.event = received /\ new.at = step /\ new.from = value
    OBVIOUS
  <2> HIDE DEF new
  <2>3. /\ emitted' \in Seq(Emission) /\ n \in Nat /\ Len(emitted') = n + 1
        /\ emitted'[n + 1] = new /\ \A i \in 1..n : emitted'[i] = emitted[i]
    BY <1>1, <2>0, <2>1, AppendProperties
  <2>4. MadeBefore(pipeline', log', emitted'[n + 1].at) = MadeBefore(pipeline, log, step)
    <3>1. step \in Nat /\ step <= step
      BY <1>1
    <3> QED BY <1>2, <3>1, <2>2, <2>3
  <2>5. value = ResultAt(step)
    BY DEF ReactionIndInv, RunsAhead
  <2>6. EmissionBehind(n + 1)'
    <3>1. emitted'[n + 1].from = Max({0} \cup MadeBefore(pipeline', log', emitted'[n + 1].at))
      BY <2>2, <2>3, <2>4, <2>5 DEF ResultAt
    <3>2. emitted'[n + 1].event = received' /\ received' <= received'
      BY <1>1, <2>2, <2>3
    <3>3. emitted'[n + 1].at < step'
      BY <1>5, <2>2, <2>3
    <3> QED BY <3>1, <3>2, <3>3 DEF EmissionBehind, ResultAt
  <2>7. ASSUME NEW i \in 1..n
        PROVE  EmissionBehind(i)'
    BY <1>3, <2>0, <2>3, <2>7
  <2>8. \A i \in 1..Len(emitted') : i \in 1..n \/ i = n + 1
    BY <2>3
  <2> QED BY <2>3, <2>6, <2>7, <2>8 DEF EmittedBehind, EmissionBehind
<1> QED BY <1>4, <1>5, <1>1

\* A step that succeeds keeps the invariant.
LEMMA SucceedsIndInv ==
  ASSUME ReactionIndInv, status = "running", step \in Positions \ Handlers, NEW v,
         v = IF pipeline[step].type \in {"invoke", "map"} THEN step ELSE value, Succeeds(v),
         UNCHANGED emitted \/ \E kind \in {"emit", "observation"} : Yielded(kind)
  PROVE  ReactionIndInv'
<1> DEFINE e == [at |-> step, ok |-> TRUE]
<1>1. /\ log \in Seq(Executed) /\ step \in Nat \ {0} /\ received \in Nat /\ value \in Nat
      /\ pipeline \in Seq(Steps)
  BY DEF ReactionIndInv, ReactionTypeOK, Executed
<1>2. e \in Executed /\ e.at = step /\ e.ok = TRUE
  BY <1>1 DEF Executed
<1>3. /\ UNCHANGED <<pipeline, received, status>> /\ step' = step + 1 /\ value' = v
      /\ log' = Append(log, e)
  BY DEF Succeeds
<1> HIDE DEF e
<1>4. Tracked(log)
  BY DEF ReactionIndInv, RunsOnTwoTracks, Tracked
<1>5. /\ Tracked(log') /\ log' \in Seq(Executed) /\ log' # <<>> /\ Last(log') = e
      /\ \A k \in 1..Len(log') : (k \in 1..Len(log) /\ log'[k] = log[k]) \/ log'[k] = e
  BY <1>1, <1>2, <1>3, <1>4, NextOnTrack, TrackedByOneMore
<1>6. RunsOnTwoTracks'
  BY <1>1, <1>3, <1>5, TracksKept
<1>7. \A k \in 1..Len(log) : log[k].at < step
  BY DEF ReactionIndInv, RunsAhead
<1>8. \A k \in 1..Len(log') : log'[k].at < step + 1
  <2>1. ASSUME NEW k \in 1..Len(log) PROVE log[k].at < step + 1
    <3>1. log[k] \in Executed
      BY <1>1, ElementOfSeq
    <3> QED BY <1>1, <1>7, <3>1 DEF Executed
  <2> QED BY <1>1, <1>2, <1>5, <2>1
<1>9. \A p : MadeBefore(pipeline, log', p) =
              MadeBefore(pipeline, log, p) \cup (IF Makes(pipeline, e) /\ e.at < p THEN {e.at} ELSE {})
  BY <1>1, <1>2, <1>3, MadeByOneMore
<1>10. \A p \in Nat : p <= step => MadeBefore(pipeline', log', p) = MadeBefore(pipeline, log, p)
  <2> SUFFICES ASSUME NEW p \in Nat, p <= step
               PROVE  MadeBefore(pipeline, log', p) = MadeBefore(pipeline, log, p)
    BY <1>3
  <2>1. ~(e.at < p)
    BY <1>1, <1>2
  <2> QED BY <1>9, <2>1
<1>11. EmittedBehind' /\ emitted' \in Seq(Emission)
  <2>1. step < step' /\ step' \in Nat
    BY <1>1, <1>3
  <2> QED BY <1>3, <1>10, <2>1, EmittedStaysBehind
<1>12. value' = Max({0} \cup MadeBefore(pipeline', log', step'))
  <2>1. /\ MadeBefore(pipeline, log, step) \subseteq 0..(step - 1)
        /\ MadeBefore(pipeline, log, step + 1) = MadeBefore(pipeline, log, step)
    BY <1>1, <1>7, MadeBehind
  <2>2. e.at < step + 1 /\ (Makes(pipeline, e) <=> pipeline[step].type \in {"invoke", "map"})
    <3>1. pipeline[step].type # "error"
      BY PipelineSteps DEF ReactionIndInv
    <3> QED BY <1>1, <1>2, <3>1 DEF Makes
  <2>3. CASE pipeline[step].type \in {"invoke", "map"}
    <3>1. MadeBefore(pipeline, log', step + 1) = MadeBefore(pipeline, log, step) \cup {step}
      BY <1>2, <1>9, <2>1, <2>2, <2>3
    <3> DEFINE S == {0} \cup MadeBefore(pipeline, log', step + 1)
    <3>2. S \in SUBSET Nat /\ step \in S /\ \A k \in S : k <= step
      BY <1>1, <2>1, <3>1
    <3> HIDE DEF S
    <3>3. Max(S) = step
      BY <1>1, <3>2, GreatestIsMax
    <3> QED BY <1>3, <2>3, <3>3 DEF S
  <2>4. CASE pipeline[step].type \notin {"invoke", "map"}
    <3>1. MadeBefore(pipeline, log', step + 1) = MadeBefore(pipeline, log, step)
      BY <1>9, <2>1, <2>2, <2>4
    <3>2. value = Max({0} \cup MadeBefore(pipeline, log, step))
      BY DEF ReactionIndInv, RunsAhead, ResultAt
    <3> QED BY <1>3, <2>4, <3>1, <3>2
  <2> QED BY <2>3, <2>4
<1>13. \A q \in Positions' : Last(log').at < q /\ q < step' => q \in Handlers'
  <2>1. Positions' = Positions /\ Positions \subseteq Nat
    BY <1>3, PipelineSteps DEF Positions, ReactionIndInv
  <2> QED BY <1>1, <1>2, <1>3, <1>5, <2>1
<1>14. RunsAhead'
  BY <1>2, <1>3, <1>5, <1>8, <1>12, <1>13 DEF RunsAhead, ResultAt
<1>15. ReactionTypeOK'
  BY <1>1, <1>3, <1>5, <1>11 DEF ReactionTypeOK, ReactionIndInv, Executed, Emission
<1> QED BY <1>6, <1>11, <1>14, <1>15 DEF ReactionIndInv

\* A failure that no handler follows ends the run where its track ends; a
\* handler puts the run back on the ordinary track behind it, with its result.
LEMMA FailIndInv ==
  ASSUME ReactionIndInv, Fail
  PROVE  ReactionIndInv'
<1> DEFINE a == [at |-> step, ok |-> FALSE]
           once == Append(log, a)
<1>1. /\ log \in Seq(Executed) /\ step \in Nat \ {0} /\ received \in Nat /\ value \in Nat
      /\ pipeline \in Seq(Steps) /\ emitted \in Seq(Emission)
      /\ status = "running" /\ step \in Positions \ Handlers
  BY DEF ReactionIndInv, ReactionTypeOK, Executed, Emission, Fail
<1>2. a \in Executed /\ a.at = step /\ a.ok = FALSE
  BY <1>1 DEF Executed
<1>3. UNCHANGED <<pipeline, received, emitted>>
  BY DEF Fail
<1> HIDE DEF a
<1>4. Tracked(log)
  BY DEF ReactionIndInv, RunsOnTwoTracks, Tracked
<1> HIDE DEF once
<1>5. /\ Tracked(once) /\ once \in Seq(Executed) /\ once # <<>> /\ Last(once) = a
      /\ \A k \in 1..Len(once) : (k \in 1..Len(log) /\ once[k] = log[k]) \/ once[k] = a
  BY <1>1, <1>2, <1>4, NextOnTrack, TrackedByOneMore DEF once
<1>6. \A p : MadeBefore(pipeline, once, p) = MadeBefore(pipeline, log, p)
  <2>1. \A p : MadeBefore(pipeline, once, p) =
                MadeBefore(pipeline, log, p) \cup (IF Makes(pipeline, a) /\ a.at < p THEN {a.at} ELSE {})
    BY <1>1, <1>2, MadeByOneMore DEF once
  <2>2. ~Makes(pipeline, a)
    BY <1>2 DEF Makes
  <2> QED BY <2>1, <2>2
<1>7. Track(step, FALSE) = HandlersFor(step)
  BY DEF Track, HandlersFor, Handlers
<1>8. CASE HandlersFor(step) = {}
  <2>1. log' = once /\ status' = "waiting" /\ UNCHANGED <<step, value>>
    BY <1>8 DEF Fail, once, a
  <2>2. RunsOnTwoTracks'
    <3>1. Track(Last(log').at, Last(log').ok) = {}
      BY <1>2, <1>5, <1>7, <1>8, <2>1
    <3> QED BY <1>3, <1>5, <2>1, <3>1, TracksKept
  <2>3. EmittedBehind'
    BY <1>1, <1>3, <1>6, <2>1, EmittedStaysBehind
  <2>4. ReactionTypeOK'
    BY <1>1, <1>3, <1>5, <2>1 DEF ReactionTypeOK, Executed, Emission
  <2> QED BY <2>1, <2>2, <2>3, <2>4 DEF ReactionIndInv, RunsAhead
<1>9. CASE HandlersFor(step) # {}
  <2>1. PICK h \in HandlersFor(step) : \A k \in HandlersFor(step) : h <= k
    <3>1. HandlersFor(step) \in SUBSET Nat
      BY PipelineSteps DEF HandlersFor, Handlers, ReactionIndInv
    <3> QED BY <1>9, <3>1, LeastNumber
  <2>2. /\ h \in Positions /\ h \in Nat /\ h > step /\ pipeline[h].type = "error"
    BY PipelineSteps DEF HandlersFor, Handlers, ReactionIndInv
  <2>3. Min(HandlersFor(step)) = h
    <3>1. HandlersFor(step) \subseteq Nat
      BY PipelineSteps DEF HandlersFor, Handlers, ReactionIndInv
    <3>2. \A x \in HandlersFor(step) : (\A y \in HandlersFor(step) : x <= y) => x = h
      BY <2>1, <2>2, <3>1
    <3> QED BY <2>1, <3>2 DEF Min
  <2>4. PICK ok \in BOOLEAN :
          /\ log' = log \o <<[at |-> step, ok |-> FALSE], [at |-> h, ok |-> ok]>>
          /\ step' = h + 1
          /\ value' = IF ok THEN h ELSE value
          /\ status' = IF ok THEN "running" ELSE "dead"
    BY <1>9, <2>3 DEF Fail
  <2> DEFINE b == [at |-> h, ok |-> ok]
  <2>5. b \in Executed /\ b.at = h /\ b.ok = ok
    BY <2>2 DEF Executed
  <2>6. log' = Append(once, b)
    <3>1. log' = log \o <<a, b>>
      BY <2>4 DEF a
    <3> HIDE DEF b
    <3>2. log \o <<a, b>> = Append(Append(log, a), b)
      BY <1>1, <1>2, <2>5
    <3> QED BY <3>1, <3>2 DEF once
  <2> HIDE DEF b
  <2>7. NextOf(once, b.at)
    BY <1>2, <1>5, <1>7, <2>1, <2>5 DEF NextOf
  <2>8. /\ Tracked(log') /\ log' \in Seq(Executed) /\ log' # <<>> /\ Last(log') = b
        /\ \A k \in 1..Len(log') : (k \in 1..Len(once) /\ log'[k] = once[k]) \/ log'[k] = b
    BY <1>5, <2>5, <2>6, <2>7, TrackedByOneMore
  <2>9. RunsOnTwoTracks'
    BY <1>3, <2>4, <2>8, TracksKept
  <2>10. \A p : MadeBefore(pipeline, log', p) =
                 MadeBefore(pipeline, log, p) \cup (IF Makes(pipeline, b) /\ b.at < p THEN {b.at} ELSE {})
    <3>1. \A p : MadeBefore(pipeline, Append(once, b), p) =
                 MadeBefore(pipeline, once, p) \cup (IF Makes(pipeline, b) /\ b.at < p THEN {b.at} ELSE {})
      BY <1>5, <2>5, MadeByOneMore
    <3> QED BY <1>6, <2>6, <3>1
  <2>11. EmittedBehind'
    <3>1. \A p \in Nat : p <= step => MadeBefore(pipeline', log', p) = MadeBefore(pipeline, log, p)
      <4> SUFFICES ASSUME NEW p \in Nat, p <= step
                   PROVE  MadeBefore(pipeline, log', p) = MadeBefore(pipeline, log, p)
        BY <1>3
      <4>1. ~(b.at < p)
        BY <1>1, <2>2, <2>5
      <4> QED BY <2>10, <4>1
    <3>2. step < step' /\ step' \in Nat
      BY <1>1, <2>2, <2>4
    <3> QED BY <1>1, <1>3, <3>1, <3>2, EmittedStaysBehind
  <2>12. \A k \in 1..Len(log) : log[k].at \in Nat /\ log[k].at < step
    <3>1. ASSUME NEW k \in 1..Len(log) PROVE log[k].at \in Nat
      <4>1. log[k] \in Executed
        BY <1>1, ElementOfSeq
      <4> QED BY <4>1 DEF Executed
    <3> QED BY <1>1, <3>1 DEF ReactionIndInv, RunsAhead
  <2>13. \A k \in 1..Len(log') : log'[k].at < step'
    <3>1. \A k \in 1..Len(once) : once[k].at < h
      BY <1>1, <1>2, <1>5, <2>2, <2>12
    <3>2. \A k \in 1..Len(once) : once[k].at < h + 1
      <4>1. ASSUME NEW k \in 1..Len(once) PROVE once[k].at \in Nat
        BY <1>1, <1>2, <1>5, <2>12
      <4> QED BY <2>2, <3>1, <4>1
    <3>3. b.at < h + 1 /\ step' = h + 1
      BY <2>2, <2>4, <2>5
    <3>4. ASSUME NEW k \in 1..Len(log') PROVE log'[k].at < step'
      BY <2>8, <3>2, <3>3
    <3> QED BY <3>4
  <2>14. ok => value' = Max({0} \cup MadeBefore(pipeline', log', step'))
    <3> SUFFICES ASSUME ok PROVE h = Max({0} \cup MadeBefore(pipeline, log', h + 1))
      BY <1>3, <2>4
    <3>1. Makes(pipeline, b) /\ b.at = h /\ h < h + 1
      BY <2>2, <2>5 DEF Makes
    <3>2. MadeBefore(pipeline, log', h + 1) = MadeBefore(pipeline, log, h + 1) \cup {h}
      BY <2>10, <3>1
    <3>3. /\ MadeBefore(pipeline, log, h) \subseteq 0..(h - 1)
          /\ MadeBefore(pipeline, log, h + 1) = MadeBefore(pipeline, log, h)
      <4>1. h \in Nat \ {0} /\ \A k \in 1..Len(log) : log[k].at < h
        BY <1>1, <2>2, <2>12
      <4> QED BY <1>1, <4>1, MadeBehind
    <3> DEFINE S == {0} \cup MadeBefore(pipeline, log', h + 1)
    <3>4. S \in SUBSET Nat /\ h \in S /\ \A k \in S : k <= h
      BY <2>2, <3>2, <3>3
    <3> HIDE DEF S
    <3>5. Max(S) = h
      BY <3>4, GreatestIsMax
    <3> QED BY <3>5 DEF S
  <2>15. \A q \in Positions' : Last(log').at < q /\ q < step' => q \in Handlers'
    <3>1. Positions' = Positions /\ Positions \subseteq Nat
      BY <1>3, PipelineSteps DEF Positions, ReactionIndInv
    <3> QED BY <2>2, <2>4, <2>5, <2>8, <3>1
  <2>16. RunsAhead'
    BY <2>4, <2>5, <2>8, <2>13, <2>14, <2>15 DEF RunsAhead, ResultAt
  <2>17. ReactionTypeOK'
    BY <1>1, <1>3, <2>2, <2>4, <2>8 DEF ReactionTypeOK, Executed, Emission
  <2> QED BY <2>9, <2>11, <2>16, <2>17 DEF ReactionIndInv
<1> QED BY <1>8, <1>9

\* Passing over a handler, or over the end of the pipeline, keeps the invariant.
LEMMA SkipIndInv ==
  ASSUME ReactionIndInv, SkipHandler \/ Finish
  PROVE  ReactionIndInv'
<1>1. /\ log \in Seq(Executed) /\ step \in Nat \ {0} /\ status = "running"
      /\ UNCHANGED <<pipeline, received, value, emitted, log>>
  BY DEF ReactionIndInv, ReactionTypeOK, Executed, SkipHandler, Finish, At
<1>2. Positions' = Positions /\ Handlers' = Handlers /\ Positions \subseteq Nat \ {0}
      /\ Handlers = {p \in Positions : pipeline[p].type = "error"}
  BY <1>1, PipelineSteps DEF Positions, Handlers, ReactionIndInv
<1>3. \A k \in 1..Len(log) : log[k].at \in Nat /\ log[k].at < step
  <2>1. ASSUME NEW k \in 1..Len(log) PROVE log[k].at \in Nat
    <3>1. log[k] \in Executed
      BY <1>1, ElementOfSeq
    <3> QED BY <3>1 DEF Executed
  <2> QED BY <1>1, <2>1 DEF ReactionIndInv, RunsAhead
<1>4. CASE SkipHandler
  <2>1. step' = step + 1 /\ UNCHANGED status /\ step \in Handlers
    BY <1>2, <1>4 DEF SkipHandler, At
  <2>2. ReactionTypeOK'
    BY <1>1, <2>1 DEF ReactionIndInv, ReactionTypeOK
  <2>3. RunsOnTwoTracks'
    BY <1>1, <1>2, <2>1 DEF ReactionIndInv, RunsOnTwoTracks, Track
  <2>4. EmittedBehind'
    <3>1. step < step' /\ step' \in Nat
      BY <1>1, <2>1
    <3> QED BY <1>1, <3>1, EmittedStaysBehind
  <2>5. value = Max({0} \cup MadeBefore(pipeline, log, step + 1))
    <3>1. MadeBefore(pipeline, log, step + 1) = MadeBefore(pipeline, log, step)
      BY <1>1, <1>3, MadeBehind
    <3> QED BY <1>1, <3>1 DEF ReactionIndInv, RunsAhead, ResultAt
  <2>6. \A q \in Positions : (log # <<>> => Last(log).at < q) /\ q < step + 1 => q \in Handlers
    <3>1. \A q \in Positions : q < step + 1 => q < step \/ q = step
      BY <1>1, <1>2
    <3> QED BY <1>1, <2>1, <3>1 DEF ReactionIndInv, RunsAhead
  <2>7. \A k \in 1..Len(log) : log[k].at < step + 1
    BY <1>1, <1>3
  <2>8. RunsAhead'
    BY <1>1, <1>2, <2>1, <2>5, <2>6, <2>7 DEF ReactionIndInv, RunsAhead, ResultAt
  <2> QED BY <2>2, <2>3, <2>4, <2>8 DEF ReactionIndInv
<1>5. CASE Finish
  <2>1. step > Len(pipeline) /\ status' = "waiting" /\ UNCHANGED step
    BY <1>5 DEF Finish
  <2>2. log # <<>> => Track(Last(log).at, Last(log).ok) = {}
    <3> SUFFICES ASSUME log # <<>> PROVE Track(Last(log).at, Last(log).ok) = {}
      OBVIOUS
    <3>1. Last(log).ok /\ \A q \in Positions : Last(log).at < q /\ q < step => q \in Handlers
      BY <1>1 DEF ReactionIndInv, RunsAhead
    <3>2. \A q \in Positions : q < step
      BY <1>1, <2>1, PipelineSteps DEF Positions, ReactionIndInv
    <3>3. \A q \in Positions : q > Last(log).at => q \in Handlers
      BY <3>1, <3>2
    <3> QED BY <3>1, <3>3 DEF Track
  <2>3. RunsOnTwoTracks'
    BY <1>1, <1>2, <2>2 DEF ReactionIndInv, RunsOnTwoTracks, Track
  <2>4. EmittedBehind'
    BY <1>1, <2>1, EmittedStaysBehind
  <2>5. ReactionTypeOK'
    BY <1>1, <2>1 DEF ReactionIndInv, ReactionTypeOK
  <2> QED BY <2>1, <2>3, <2>4, <2>5 DEF ReactionIndInv, RunsAhead
<1> QED BY <1>4, <1>5

\* A new event finds nothing emitted for it yet.
LEMMA ReceiveIndInv ==
  ASSUME ReactionIndInv, Trigger \/ PassOver
  PROVE  ReactionIndInv'
<1>1. /\ received \in Nat /\ received' = received + 1 /\ emitted \in Seq(Emission)
      /\ UNCHANGED <<pipeline, emitted>> /\ status = "waiting"
  BY DEF ReactionIndInv, ReactionTypeOK, Emission, Trigger, PassOver
<1>2. EmittedBehind'
  <2>1. ASSUME NEW i \in 1..Len(emitted)
        PROVE  emitted[i].event <= received' /\ emitted[i].event # received'
    <3>1. emitted[i] \in Emission
      BY <1>1, ElementOfSeq
    <3>2. emitted[i].event \in Nat
      BY <3>1 DEF Emission
    <3> QED BY <1>1, <3>2 DEF ReactionIndInv, EmittedBehind
  <2> QED BY <1>1, <2>1 DEF EmittedBehind
<1>3. CASE PassOver
  <2>1. UNCHANGED <<status, step, value, log>>
    BY <1>3 DEF PassOver
  <2>2. ReactionTypeOK'
    BY <1>1, <2>1 DEF ReactionIndInv, ReactionTypeOK
  <2>3. RunsOnTwoTracks'
    BY <1>1, <2>1 DEF ReactionIndInv, RunsOnTwoTracks, Track, Positions, Handlers
  <2>4. RunsAhead'
    BY <1>1, <2>1 DEF RunsAhead
  <2> QED BY <1>2, <2>2, <2>3, <2>4 DEF ReactionIndInv
<1>4. CASE Trigger
  <2>1. status' = "running" /\ step' = 1 /\ value' = 0 /\ log' = <<>>
    BY <1>4 DEF Trigger
  <2>2. RunsOnTwoTracks'
    BY <2>1 DEF RunsOnTwoTracks
  <2>3. \A q \in Positions' : ~(q < 1)
    BY <1>1, PipelineSteps DEF Positions, ReactionIndInv
  <2>4. Max({0} \cup MadeBefore(pipeline', log', step')) = 0
    <3>1. MadeBefore(pipeline', log', step') = {}
      BY <2>1 DEF MadeBefore
    <3>2. {0} \in SUBSET Nat /\ 0 \in {0} /\ \A k \in {0} : k <= 0
      OBVIOUS
    <3>3. Max({0}) = 0
      BY <3>2, GreatestIsMax
    <3> QED BY <3>1, <3>3
  <2>5. RunsAhead'
    BY <2>1, <2>3, <2>4 DEF RunsAhead, ResultAt
  <2>6. ReactionTypeOK'
    BY <1>1, <2>1, EmptySeq DEF ReactionIndInv, ReactionTypeOK
  <2> QED BY <1>2, <2>2, <2>5, <2>6 DEF ReactionIndInv
<1> QED BY <1>3, <1>4

\* Every step of a reaction keeps the invariant.
LEMMA ReactionNextIndInv == ReactionIndInv /\ [ReactionNext]_reactionVars => ReactionIndInv'
<1> SUFFICES ASSUME ReactionIndInv, [ReactionNext]_reactionVars
             PROVE  ReactionIndInv'
  OBVIOUS
<1>1. CASE Emit \/ Invoke \/ Transform \/ Validate \/ Branch
  <2>1. /\ status = "running" /\ step \in Positions
        /\ pipeline[step].type \in {"emit", "invoke", "map", "assert", "case"}
        /\ Succeeds(IF pipeline[step].type \in {"invoke", "map"} THEN step ELSE value)
    BY <1>1 DEF Emit, Invoke, Transform, Validate, Branch, At
  <2>2. UNCHANGED emitted \/ \E kind \in {"emit", "observation"} : Yielded(kind)
    BY <1>1 DEF Emit, Invoke, Transform, Validate, Branch, Observed
  <2>3. step \notin Handlers
    BY <2>1 DEF Handlers
  <2> QED BY <2>1, <2>2, <2>3, SucceedsIndInv
<1>2. CASE Fail
  BY <1>2, FailIndInv
<1>3. CASE SkipHandler \/ Finish
  BY <1>3, SkipIndInv
<1>4. CASE Trigger \/ PassOver
  BY <1>4, ReceiveIndInv
<1>5. CASE UNCHANGED reactionVars
  <2>1. UNCHANGED <<pipeline, received, status, step, value, emitted, log>>
    BY <1>5 DEF reactionVars
  <2>2. ReactionTypeOK'
    BY <2>1 DEF ReactionIndInv, ReactionTypeOK
  <2>3. RunsOnTwoTracks'
    BY <2>1 DEF ReactionIndInv, RunsOnTwoTracks, Track, Positions, Handlers
  <2>4. RunsAhead'
    BY <2>1 DEF ReactionIndInv, RunsAhead, Positions, Handlers, ResultAt
  <2>5. EmittedBehind'
    BY <2>1 DEF ReactionIndInv, EmittedBehind, ResultAt
  <2> QED BY <2>2, <2>3, <2>4, <2>5 DEF ReactionIndInv
<1> QED BY <1>1, <1>2, <1>3, <1>4, <1>5 DEF ReactionNext, Run

\* Where a run stands, and what it has emitted, follow from the steps it executed.
THEOREM ReactionIndInvHolds == ReactionSpec => []ReactionIndInv
<1>1. (\E steps \in Pipelines : ReactionInit(steps)) => ReactionIndInv
  BY ReactionInitIndInv
<1> QED BY <1>1, ReactionNextIndInv, PTL DEF ReactionSpec

\* A run of any pipeline goes from each executed step to the next one of its
\* track, and ends where its track ends.
THEOREM RunsOnTwoTracksHolds == ReactionSpec => []RunsOnTwoTracks
<1>1. ReactionIndInv => RunsOnTwoTracks
  BY DEF ReactionIndInv
<1> QED BY <1>1, ReactionIndInvHolds, PTL

\* An emitted event carries the result of its own run, at its own step.
THEOREM EventsCarryTheirResultHolds == ReactionSpec => []EventsCarryTheirResult
<1>1. ReactionIndInv => EventsCarryTheirResult
  BY DEF ReactionIndInv, EmittedBehind, EventsCarryTheirResult
<1> QED BY <1>1, ReactionIndInvHolds, PTL

(***************************************************************************)
(* The linked list: its pointers stand for the sequence, and a trigger     *)
(* that walks along them calls each callback once.                         *)
(***************************************************************************)
Pointers == [Tokens -> Tokens \cup {0}]

\* What changing a pointer does.
LEMMA PointedAt ==
  ASSUME NEW pointer \in Pointers, NEW n, NEW v \in Tokens \cup {0}
  PROVE  /\ Pointed(pointer, n, v) \in Pointers
         /\ \A x \in Tokens : Pointed(pointer, n, v)[x] = IF x = n THEN v ELSE pointer[x]
BY DEF Pointed, Pointers

\* The elements of a sequence.
LEMMA SetOfSeq ==
  ASSUME NEW S, NEW s \in Seq(S)
  PROVE  /\ ToSet(s) = {s[i] : i \in 1..Len(s)} /\ ToSet(s) \subseteq S
         /\ IsInjective(s) <=> \A i, j \in 1..Len(s) : s[i] = s[j] => i = j
<1>1. DOMAIN s = 1..Len(s) /\ \A i \in 1..Len(s) : s[i] \in S
  BY LenProperties, ElementOfSeq
<1> QED BY <1>1 DEF ToSet, IsInjective

\* The empty list has nobody twice.
LEMMA NothingTwice == <<>> \in Seq(Tokens) /\ ToSet(<<>>) = {} /\ IsInjective(<<>>)
<1> DEFINE e == <<>>
<1>1. e \in Seq(Tokens) /\ Len(e) = 0
  BY EmptySeq
<1> HIDE DEF e
<1>2. ToSet(e) = {e[i] : i \in 1..Len(e)} /\ (IsInjective(e) <=> \A i, j \in 1..Len(e) : e[i] = e[j] => i = j)
  BY <1>1, SetOfSeq
<1>3. ToSet(e) = {} /\ IsInjective(e)
  BY <1>1, <1>2
<1> QED BY <1>1, <1>3 DEF e

\* The list as its pointers show it, without records and sets.
Linked(first, last, next, previous, s) ==
    /\ s \in Seq(Tokens) /\ \A i, j \in 1..Len(s) : s[i] = s[j] => i = j
    /\ first = IF s = <<>> THEN 0 ELSE s[1]
    /\ last = IF s = <<>> THEN 0 ELSE s[Len(s)]
    /\ next \in Pointers /\ previous \in Pointers
    /\ \A i \in 1..Len(s) :
          /\ next[s[i]] = IF i = Len(s) THEN 0 ELSE s[i + 1]
          /\ previous[s[i]] = IF i = 1 THEN 0 ELSE s[i - 1]

\* A list shows a sequence when its pointers link it and its counters fit.
LEMMA ShowsLinked ==
  ASSUME NEW l, NEW s \in Seq(Tokens)
  PROVE  Shows(l, s) <=>
           /\ l = [first |-> l.first, last |-> l.last, registry |-> l.registry,
                   length |-> l.length, next |-> l.next, previous |-> l.previous]
           /\ Linked(l.first, l.last, l.next, l.previous, s)
           /\ l.length = Len(s) /\ l.registry = {s[i] : i \in 1..Len(s)}
<1>1. Len(s) \in Nat /\ (s # <<>> => 1 \in 1..Len(s) /\ Len(s) \in 1..Len(s))
  BY LenProperties, EmptySeq
<1>2. \A i \in 1..Len(s) : s[i] \in Tokens
  BY ElementOfSeq
<1>3. /\ ToSet(s) = {s[i] : i \in 1..Len(s)} /\ ToSet(s) \subseteq Tokens
      /\ IsInjective(s) <=> \A i, j \in 1..Len(s) : s[i] = s[j] => i = j
  BY SetOfSeq
<1>4. ASSUME Shows(l, s)
      PROVE  /\ l = [first |-> l.first, last |-> l.last, registry |-> l.registry,
                     length |-> l.length, next |-> l.next, previous |-> l.previous]
             /\ Linked(l.first, l.last, l.next, l.previous, s)
             /\ l.length = Len(s) /\ l.registry = {s[i] : i \in 1..Len(s)}
  <2>1. l = [first |-> l.first, last |-> l.last, registry |-> l.registry,
             length |-> l.length, next |-> l.next, previous |-> l.previous]
        /\ l.next \in Pointers /\ l.previous \in Pointers
    BY <1>4 DEF Shows, ListRecord, Pointers
  <2> QED BY <1>3, <1>4, <2>1 DEF Shows, Linked
<1>5. ASSUME l = [first |-> l.first, last |-> l.last, registry |-> l.registry,
                  length |-> l.length, next |-> l.next, previous |-> l.previous],
             Linked(l.first, l.last, l.next, l.previous, s),
             l.length = Len(s), l.registry = {s[i] : i \in 1..Len(s)}
      PROVE  Shows(l, s)
  <2>1. l.first \in Tokens \cup {0} /\ l.last \in Tokens \cup {0}
    BY <1>1, <1>2, <1>5 DEF Linked
  <2>2. l.next \in Pointers /\ l.previous \in Pointers /\ l.length \in Nat /\ l.registry \in SUBSET Tokens
    BY <1>1, <1>3, <1>5 DEF Linked
  <2>3. l \in ListRecord
    BY <1>5, <2>1, <2>2 DEF ListRecord, Pointers
  <2> QED BY <1>3, <1>5, <2>3 DEF Shows, Linked
<1> QED BY <1>4, <1>5

\* A new node at the end.
LEMMA LinkedLast ==
  ASSUME NEW first, NEW last, NEW next, NEW previous, NEW s,
         Linked(first, last, next, previous, s),
         NEW t \in Tokens, \A i \in 1..Len(s) : s[i] # t
  PROVE  Linked(IF last = 0 THEN t ELSE first, t,
                Pointed(Pointed(next, t, 0), last, t), Pointed(previous, t, last), Append(s, t))
<1> DEFINE r == Append(s, t)
           n == Len(s)
           nx == Pointed(Pointed(next, t, 0), last, t)
           pv == Pointed(previous, t, last)
<1>1. /\ s \in Seq(Tokens) /\ n \in Nat /\ Len(r) = n + 1 /\ r[n + 1] = t /\ r \in Seq(Tokens)
      /\ \A i \in 1..n : r[i] = s[i]
      /\ s = <<>> <=> n = 0
  BY AppendProperties, EmptySeq DEF Linked
<1>2. \A i \in 1..n : s[i] \in Tokens /\ s[i] # 0 /\ s[i] # t
  BY <1>1, ElementOfSeq, TokensAssumption
<1>3. last \in Tokens \cup {0} /\ t # 0
  BY <1>1, <1>2, TokensAssumption DEF Linked
<1>4. /\ nx \in Pointers /\ pv \in Pointers
      /\ \A x \in Tokens : nx[x] = IF x = last THEN t ELSE IF x = t THEN 0 ELSE next[x]
      /\ \A x \in Tokens : pv[x] = IF x = t THEN last ELSE previous[x]
  <2>1. next \in Pointers /\ previous \in Pointers /\ 0 \in Tokens \cup {0} /\ t \in Tokens \cup {0}
    BY DEF Linked
  <2>2. /\ Pointed(next, t, 0) \in Pointers
        /\ \A x \in Tokens : Pointed(next, t, 0)[x] = IF x = t THEN 0 ELSE next[x]
    BY <2>1, PointedAt
  <2>3. \A x \in Tokens : nx[x] = IF x = last THEN t ELSE Pointed(next, t, 0)[x]
    BY <2>1, <2>2, PointedAt
  <2>4. nx \in Pointers
    BY <2>1, <2>2, PointedAt
  <2>5. pv \in Pointers /\ \A x \in Tokens : pv[x] = IF x = t THEN last ELSE previous[x]
    BY <1>3, <2>1, PointedAt
  <2> HIDE DEF nx, pv
  <2> QED BY <2>2, <2>3, <2>4, <2>5
<1>5. r # <<>> /\ r[1] = (IF last = 0 THEN t ELSE first) /\ r[Len(r)] = t
  <2>1. r # <<>>
    BY <1>1, AppendProperties
  <2>2. CASE n = 0
    BY <1>1, <2>1, <2>2 DEF Linked
  <2>3. CASE n # 0
    <3>1. last = s[n] /\ n \in 1..n /\ 1 \in 1..n /\ first = s[1]
      BY <1>1, <2>3 DEF Linked
    <3> QED BY <1>1, <1>2, <2>1, <3>1
  <2> QED BY <2>2, <2>3
<1>6. \A i, j \in 1..Len(r) : r[i] = r[j] => i = j
  <2>1. \A i \in 1..Len(r) : i \in 1..n \/ i = n + 1
    BY <1>1
  <2>2. \A i, j \in 1..n : s[i] = s[j] => i = j
    BY DEF Linked
  <2> QED BY <1>1, <1>2, <2>1, <2>2
<1>7. ASSUME NEW i \in 1..Len(r)
      PROVE  /\ nx[r[i]] = IF i = Len(r) THEN 0 ELSE r[i + 1]
             /\ pv[r[i]] = IF i = 1 THEN 0 ELSE r[i - 1]
  <2>0. /\ n # 0 => last = s[n] /\ n \in 1..n
        /\ n = 0 => last = 0
        /\ \A j \in 1..n : /\ next[s[j]] = IF j = n THEN 0 ELSE s[j + 1]
                           /\ previous[s[j]] = IF j = 1 THEN 0 ELSE s[j - 1]
        /\ \A j, k \in 1..n : s[j] = s[k] => j = k
    BY <1>1 DEF Linked
  <2> HIDE DEF nx, pv, r, n
  <2>1. CASE i = n + 1
    <3>1. r[i] = t /\ i = Len(r) /\ (i = 1 <=> n = 0) /\ i - 1 = n
      BY <1>1, <2>1
    <3>2. nx[t] = 0
      <4>1. t # last
        BY <1>2, <1>3, <2>0, <1>1
      <4> QED BY <1>4, <4>1
    <3>3. pv[t] = IF i = 1 THEN 0 ELSE r[i - 1]
      BY <1>1, <1>4, <2>0, <3>1
    <3> QED BY <3>1, <3>2, <3>3
  <2>2. CASE i \in 1..n
    <3>1. r[i] = s[i] /\ s[i] \in Tokens /\ s[i] # t /\ i # Len(r)
      BY <1>1, <1>2, <2>2
    <3>2. nx[s[i]] = r[i + 1]
      <4>1. CASE i = n
        <5>1. s[i] = last /\ r[i + 1] = t
          BY <1>1, <2>0, <2>2, <4>1
        <5> QED BY <1>4, <3>1, <5>1
      <4>2. CASE i # n
        <5>1. s[i] # last /\ i + 1 \in 1..n
          BY <1>1, <2>0, <2>2, <4>2
        <5>2. next[s[i]] = s[i + 1] /\ r[i + 1] = s[i + 1]
          BY <1>1, <2>0, <2>2, <4>2, <5>1
        <5> QED BY <1>4, <3>1, <5>1, <5>2
      <4> QED BY <4>1, <4>2
    <3>3. pv[s[i]] = IF i = 1 THEN 0 ELSE r[i - 1]
      <4>1. i # 1 => i - 1 \in 1..n /\ r[i - 1] = s[i - 1]
        BY <1>1, <2>2
      <4> QED BY <1>4, <2>0, <2>2, <3>1, <4>1
    <3> QED BY <3>1, <3>2, <3>3
  <2> QED BY <1>1, <2>1, <2>2
<1> HIDE DEF nx, pv, r
<1>8. Linked(IF last = 0 THEN t ELSE first, t, nx, pv, r)
  BY <1>1, <1>4, <1>5, <1>6, <1>7 DEF Linked
<1> QED BY <1>8 DEF nx, pv, r

\* Reading a list backwards exchanges its ends and its pointers.
LEMMA Reversed ==
  ASSUME NEW S, NEW s \in Seq(S)
  PROVE  /\ Reverse(s) \in Seq(S) /\ Len(Reverse(s)) = Len(s)
         /\ \A i \in 1..Len(s) : Reverse(s)[i] = s[Len(s) - i + 1]
<1>1. Len(s) \in Nat /\ \A i \in 1..Len(s) : s[(Len(s) - i) + 1] \in S
  <2>1. Len(s) \in Nat
    BY LenProperties
  <2>2. \A i \in 1..Len(s) : (Len(s) - i) + 1 \in 1..Len(s)
    BY <2>1
  <2> QED BY <2>1, <2>2, ElementOfSeq
<1> DEFINE r == [i \in 1..Len(s) |-> s[(Len(s) - i) + 1]]
<1>2. r \in [1..Len(s) -> S]
  BY <1>1
<1>3. r \in Seq(S) /\ Len(r) = Len(s)
  <2> HIDE DEF r
  <2> QED BY <1>1, <1>2, SequenceOfLength
<1>4. \A i \in 1..Len(s) : r[i] = s[Len(s) - i + 1]
  OBVIOUS
<1> QED BY <1>3, <1>4 DEF Reverse

\* Read from its end, a list is linked in the reverse order.
LEMMA LinkedBackwards ==
  ASSUME NEW first, NEW last, NEW next, NEW previous, NEW s,
         Linked(first, last, next, previous, s)
  PROVE  Linked(last, first, previous, next, Reverse(s))
<1> DEFINE r == Reverse(s)
           n == Len(s)
<1>1. /\ s \in Seq(Tokens) /\ n \in Nat
      /\ r \in Seq(Tokens) /\ Len(r) = n
      /\ \A i \in 1..n : r[i] = s[n - i + 1]
      /\ (s = <<>> <=> n = 0) /\ (r = <<>> <=> n = 0)
  <2>1. s \in Seq(Tokens)
    BY DEF Linked
  <2>2. n \in Nat /\ r \in Seq(Tokens) /\ Len(r) = n
    BY <2>1, Reversed, LenProperties
  <2>3. \A i \in 1..n : r[i] = s[n - i + 1]
    BY <2>1, Reversed
  <2>4. (s = <<>> <=> n = 0) /\ (r = <<>> <=> n = 0)
    <3> HIDE DEF r
    <3> QED BY <2>1, <2>2, EmptySeq
  <2> QED BY <2>1, <2>2, <2>3, <2>4
<1> HIDE DEF r
<1>2. \A i \in 1..n : n - i + 1 \in 1..n
  BY <1>1
<1>3. \A i, j \in 1..n : r[i] = r[j] => i = j
  <2> SUFFICES ASSUME NEW i \in 1..n, NEW j \in 1..n, r[i] = r[j] PROVE i = j
    OBVIOUS
  <2>1. n - i + 1 = n - j + 1
    <3>1. \A x, y \in 1..n : s[x] = s[y] => x = y
      BY DEF Linked
    <3>2. n - i + 1 \in 1..n /\ n - j + 1 \in 1..n /\ s[n - i + 1] = s[n - j + 1]
      BY <1>1, <1>2
    <3> QED BY <3>1, <3>2
  <2> QED BY <1>1, <2>1
<1>4. last = (IF r = <<>> THEN 0 ELSE r[1]) /\ first = IF r = <<>> THEN 0 ELSE r[Len(r)]
  <2>1. n # 0 => r[1] = s[n] /\ r[n] = s[1]
    <3>1. ASSUME n # 0 PROVE r[1] = s[n - 1 + 1] /\ r[n] = s[n - n + 1] /\ n - 1 + 1 = n /\ n - n + 1 = 1
      BY <1>1, <3>1
    <3> QED BY <3>1
  <2> QED BY <1>1, <2>1 DEF Linked
<1>5. ASSUME NEW i \in 1..n
      PROVE  /\ previous[r[i]] = IF i = n THEN 0 ELSE r[i + 1]
             /\ next[r[i]] = IF i = 1 THEN 0 ELSE r[i - 1]
  <2> DEFINE k == n - i + 1
  <2>1. k \in 1..n /\ r[i] = s[k] /\ (k = 1 <=> i = n) /\ (k = n <=> i = 1)
    BY <1>1
  <2>2. i # n => r[i + 1] = s[k - 1]
    <3>1. ASSUME i # n PROVE i + 1 \in 1..n /\ n - (i + 1) + 1 = k - 1
      BY <1>1, <3>1
    <3> QED BY <1>1, <3>1
  <2>3. i # 1 => r[i - 1] = s[k + 1]
    <3>1. ASSUME i # 1 PROVE i - 1 \in 1..n /\ n - (i - 1) + 1 = k + 1
      BY <1>1, <3>1
    <3> QED BY <1>1, <3>1
  <2> HIDE DEF k
  <2> QED BY <2>1, <2>2, <2>3 DEF Linked
<1>6. Linked(last, first, previous, next, r)
  BY <1>1, <1>3, <1>4, <1>5 DEF Linked
<1> QED BY <1>6 DEF r

\* A new node at the front is one at the end of the list that is read backwards.
LEMMA LinkedFirst ==
  ASSUME NEW first, NEW last, NEW next, NEW previous, NEW s,
         Linked(first, last, next, previous, s),
         NEW t \in Tokens, \A i \in 1..Len(s) : s[i] # t
  PROVE  Linked(t, IF first = 0 THEN t ELSE last,
                Pointed(next, t, first), Pointed(Pointed(previous, t, 0), first, t), <<t>> \o s)
<1> DEFINE r == Reverse(s)
           a == Append(r, t)
           n == Len(s)
<1>1. /\ s \in Seq(Tokens) /\ n \in Nat /\ r \in Seq(Tokens) /\ Len(r) = n
      /\ \A i \in 1..n : r[i] = s[n - i + 1]
  <2>1. s \in Seq(Tokens)
    BY DEF Linked
  <2> QED BY <2>1, Reversed, LenProperties
<1> HIDE DEF r
<1>2. Linked(last, first, previous, next, r)
  BY LinkedBackwards DEF r
<1>3. \A i \in 1..Len(r) : r[i] # t
  <2>1. \A i \in 1..n : n - i + 1 \in 1..n
    BY <1>1
  <2> QED BY <1>1, <2>1
<1>4. Linked(IF first = 0 THEN t ELSE last, t,
             Pointed(Pointed(previous, t, 0), first, t), Pointed(next, t, first), a)
  BY <1>2, <1>3, LinkedLast
<1> HIDE DEF a
<1>5. Linked(t, IF first = 0 THEN t ELSE last,
             Pointed(next, t, first), Pointed(Pointed(previous, t, 0), first, t), Reverse(a))
  BY <1>4, LinkedBackwards
<1>6. Reverse(a) = <<t>> \o s
  <2>1. a \in Seq(Tokens) /\ Len(a) = n + 1 /\ a[n + 1] = t /\ \A i \in 1..n : a[i] = r[i]
    BY <1>1, AppendProperties DEF a
  <2>2. Reverse(a) \in Seq(Tokens) /\ Len(Reverse(a)) = n + 1
    BY <2>1, Reversed
  <2>3. \A i \in 1..(n + 1) : Reverse(a)[i] = a[(n + 1) - i + 1]
    BY <2>1, Reversed
  <2>4. /\ <<t>> \in Seq(Tokens) /\ Len(<<t>>) = 1 /\ <<t>>[1] = t
    OBVIOUS
  <2>5. <<t>> \o s \in Seq(Tokens) /\ Len(<<t>> \o s) = 1 + n
    BY <1>1, <2>4, ConcatProperties
  <2>6. \A i \in 1..(1 + n) : (<<t>> \o s)[i] = IF i <= 1 THEN t ELSE s[i - 1]
    <3>1. \A i \in 1..(Len(<<t>>) + n) : (<<t>> \o s)[i] = IF i <= Len(<<t>>) THEN <<t>>[i] ELSE s[i - Len(<<t>>)]
      BY <1>1, <2>4, ConcatProperties
    <3>2. \A i \in 1..(1 + n) : i <= 1 => i = 1
      BY <1>1
    <3> QED BY <2>4, <3>1, <3>2
  <2> DEFINE c == <<t>> \o s
             b == Reverse(a)
  <2> HIDE DEF c, b
  <2>7. ASSUME NEW i \in 1..(n + 1) PROVE b[i] = c[i]
    <3>1. CASE i = 1
      <4>1. (n + 1) - i + 1 = n + 1
        BY <1>1, <3>1
      <4> QED BY <1>1, <2>1, <2>3, <2>6, <3>1, <4>1 DEF b, c
    <3>2. CASE i # 1
      <4>1. /\ (n + 1) - i + 1 \in 1..n /\ i - 1 \in 1..n
            /\ n - ((n + 1) - i + 1) + 1 = i - 1 /\ ~(i <= 1) /\ i \in 1..(1 + n)
        BY <1>1, <3>2
      <4>2. b[i] = s[i - 1]
        BY <1>1, <2>1, <2>3, <4>1 DEF b
      <4>3. c[i] = s[i - 1]
        BY <2>6, <4>1 DEF c
      <4> QED BY <4>2, <4>3
    <3> QED BY <3>1, <3>2
  <2>8. b \in Seq(Tokens) /\ c \in Seq(Tokens) /\ Len(b) = n + 1 /\ Len(c) = n + 1
    BY <1>1, <2>2, <2>5 DEF b, c
  <2>9. b = c
    BY <2>7, <2>8, SeqEqual
  <2> QED BY <2>9 DEF b, c
<1> QED BY <1>5, <1>6

\* A sequence from which the element in place k is gone.
Less(r, s, k) ==
    /\ r \in Seq(Tokens) /\ Len(r) = Len(s) - 1
    /\ \A j \in 1..(Len(s) - 1) : r[j] = IF j < k THEN s[j] ELSE s[j + 1]

\* Taking out a node leaves its neighbours linked with each other.
LEMMA LinkedWithout ==
  ASSUME NEW first, NEW last, NEW next, NEW previous, NEW s,
         Linked(first, last, next, previous, s),
         NEW k \in 1..Len(s), NEW r, Less(r, s, k),
         NEW t, t = s[k], NEW before, before = previous[t], NEW behind, behind = next[t]
  PROVE  Linked(IF before = 0 THEN behind ELSE first, IF behind = 0 THEN before ELSE last,
                Pointed(Pointed(next, before, behind), t, 0),
                Pointed(Pointed(previous, behind, before), t, 0), r)
<1> DEFINE n == Len(s)
           nx == Pointed(Pointed(next, before, behind), t, 0)
           pv == Pointed(Pointed(previous, behind, before), t, 0)
<1>1. /\ s \in Seq(Tokens) /\ n \in Nat /\ k \in 1..n
      /\ r \in Seq(Tokens) /\ Len(r) = n - 1
      /\ \A j \in 1..(n - 1) : r[j] = IF j < k THEN s[j] ELSE s[j + 1]
      /\ (r = <<>> <=> n = 1) /\ s # <<>>
  <2>1. s \in Seq(Tokens)
    BY DEF Linked
  <2>2. n \in Nat
    BY <2>1, LenProperties
  <2>3. r \in Seq(Tokens) /\ Len(r) = n - 1
    BY DEF Less
  <2>4. r = <<>> <=> n = 1
    BY <2>2, <2>3, EmptySeq
  <2>5. s # <<>>
    BY <2>2, EmptySeq
  <2> QED BY <2>1, <2>2, <2>3, <2>4, <2>5 DEF Less
<1>2. \A i \in 1..n : s[i] \in Tokens /\ s[i] # 0
  BY <1>1, ElementOfSeq, TokensAssumption
<1>3. /\ \A i, j \in 1..n : s[i] = s[j] => i = j
      /\ first = s[1] /\ last = s[n] /\ next \in Pointers /\ previous \in Pointers
      /\ \A i \in 1..n : /\ next[s[i]] = IF i = n THEN 0 ELSE s[i + 1]
                         /\ previous[s[i]] = IF i = 1 THEN 0 ELSE s[i - 1]
  BY <1>1 DEF Linked
<1>4. /\ t \in Tokens /\ t # 0
      /\ before = IF k = 1 THEN 0 ELSE s[k - 1]
      /\ behind = IF k = n THEN 0 ELSE s[k + 1]
  BY <1>1, <1>2, <1>3
<1>5. before \in Tokens \cup {0} /\ behind \in Tokens \cup {0}
  BY <1>1, <1>2, <1>4
<1>6. /\ nx \in Pointers /\ pv \in Pointers
      /\ \A x \in Tokens : nx[x] = IF x = t THEN 0 ELSE IF x = before THEN behind ELSE next[x]
      /\ \A x \in Tokens : pv[x] = IF x = t THEN 0 ELSE IF x = behind THEN before ELSE previous[x]
  <2>1. /\ Pointed(next, before, behind) \in Pointers
        /\ \A x \in Tokens : Pointed(next, before, behind)[x] = IF x = before THEN behind ELSE next[x]
    BY <1>3, <1>5, PointedAt
  <2>2. /\ Pointed(previous, behind, before) \in Pointers
        /\ \A x \in Tokens : Pointed(previous, behind, before)[x] = IF x = behind THEN before ELSE previous[x]
    BY <1>3, <1>5, PointedAt
  <2>3. nx \in Pointers /\ \A x \in Tokens : nx[x] = IF x = t THEN 0 ELSE Pointed(next, before, behind)[x]
    BY <2>1, PointedAt
  <2>4. pv \in Pointers /\ \A x \in Tokens : pv[x] = IF x = t THEN 0 ELSE Pointed(previous, behind, before)[x]
    BY <2>2, PointedAt
  <2> HIDE DEF nx, pv
  <2> QED BY <2>1, <2>2, <2>3, <2>4
<1> HIDE DEF nx, pv
<1>7. ASSUME NEW j \in 1..(n - 1)
      PROVE  \E i \in 1..n : /\ r[j] = s[i] /\ i # k
                             /\ i = IF j < k THEN j ELSE j + 1
  BY <1>1
<1>8. \A i, j \in 1..Len(r) : r[i] = r[j] => i = j
  <2> SUFFICES ASSUME NEW i \in 1..(n - 1), NEW j \in 1..(n - 1), r[i] = r[j] PROVE i = j
    BY <1>1
  <2>1. PICK x \in 1..n : r[i] = s[x] /\ x = IF i < k THEN i ELSE i + 1
    BY <1>7
  <2>2. PICK y \in 1..n : r[j] = s[y] /\ y = IF j < k THEN j ELSE j + 1
    BY <1>7
  <2>3. \A p, q \in 1..n : s[p] = s[q] => p = q
    BY <1>3
  <2>4. x = y
    <3>1. s[x] = s[y]
      BY <2>1, <2>2
    <3> QED BY <2>3, <3>1
  <2> QED BY <1>1, <2>1, <2>2, <2>4
<1>9. /\ (IF before = 0 THEN behind ELSE first) = IF r = <<>> THEN 0 ELSE r[1]
      /\ (IF behind = 0 THEN before ELSE last) = IF r = <<>> THEN 0 ELSE r[Len(r)]
  <2>1. before = 0 <=> k = 1
    <3>1. k # 1 => k - 1 \in 1..n
      BY <1>1
    <3> QED BY <1>2, <1>4, <3>1
  <2>2. behind = 0 <=> k = n
    <3>1. k # n => k + 1 \in 1..n
      BY <1>1
    <3> QED BY <1>2, <1>4, <3>1
  <2>3. CASE n = 1
    BY <1>1, <1>4, <2>1, <2>2, <2>3
  <2>4. CASE n # 1
    <3>1. 1 \in 1..(n - 1) /\ n - 1 \in 1..(n - 1) /\ (n - 1) + 1 = n /\ (n - 1 < k <=> k = n) /\ (1 < k <=> k # 1)
      BY <1>1, <2>4
    <3>2. r[1] = (IF k = 1 THEN s[2] ELSE s[1]) /\ r[n - 1] = IF k = n THEN s[n - 1] ELSE s[n]
      BY <1>1, <3>1
    <3> QED BY <1>1, <1>3, <1>4, <2>1, <2>2, <2>4, <3>2
  <2> QED BY <2>3, <2>4
<1>10. ASSUME NEW j \in 1..(n - 1)
       PROVE  /\ nx[r[j]] = IF j = n - 1 THEN 0 ELSE r[j + 1]
              /\ pv[r[j]] = IF j = 1 THEN 0 ELSE r[j - 1]
  <2>1. PICK i \in 1..n : /\ r[j] = s[i] /\ i # k
                          /\ i = IF j < k THEN j ELSE j + 1
    BY <1>7
  <2>2. s[i] \in Tokens /\ s[i] # t /\ s[i] # 0
    BY <1>1, <1>2, <1>3, <2>1
  <2>3. nx[s[i]] = IF j = n - 1 THEN 0 ELSE r[j + 1]
    <3>1. CASE i + 1 = k
      <4>1. s[i] = before /\ j = i /\ (j = n - 1 <=> k = n)
        BY <1>1, <1>4, <2>1, <3>1
      <4>2. j # n - 1 => j + 1 \in 1..(n - 1) /\ r[j + 1] = s[k + 1]
        BY <1>1, <2>1, <3>1
      <4> QED BY <1>4, <1>6, <2>2, <4>1, <4>2
    <3>2. CASE i + 1 # k
      <4>1. s[i] # before
        <5>1. k # 1 => k - 1 \in 1..n /\ k - 1 # i
          BY <1>1, <2>1, <3>2
        <5> QED BY <1>3, <1>4, <2>2, <5>1
      <4>2. i = n <=> j = n - 1
        BY <1>1, <2>1, <3>2
      <4>3. j # n - 1 => r[j + 1] = s[i + 1]
        BY <1>1, <2>1, <3>2
      <4> QED BY <1>3, <1>6, <2>2, <4>1, <4>2, <4>3
    <3> QED BY <3>1, <3>2
  <2>4. pv[s[i]] = IF j = 1 THEN 0 ELSE r[j - 1]
    <3>1. CASE i = k + 1
      <4>1. s[i] = behind /\ j = k /\ k # n
        BY <1>1, <1>4, <2>1, <3>1
      <4>2. j # 1 => j - 1 \in 1..(n - 1) /\ r[j - 1] = s[k - 1]
        BY <1>1, <4>1
      <4> QED BY <1>4, <1>6, <2>2, <4>1, <4>2
    <3>2. CASE i # k + 1
      <4>1. s[i] # behind
        <5>1. k # n => k + 1 \in 1..n /\ k + 1 # i
          BY <1>1, <3>2
        <5> QED BY <1>3, <1>4, <2>2, <5>1
      <4>2. i = 1 <=> j = 1
        BY <1>1, <2>1, <3>2
      <4>3. j # 1 => r[j - 1] = s[i - 1]
        BY <1>1, <2>1, <3>2
      <4> QED BY <1>3, <1>6, <2>2, <4>1, <4>2, <4>3
    <3> QED BY <3>1, <3>2
  <2> QED BY <2>1, <2>3, <2>4
<1>11. Linked(IF before = 0 THEN behind ELSE first, IF behind = 0 THEN before ELSE last, nx, pv, r)
  BY <1>1, <1>6, <1>8, <1>9, <1>10 DEF Linked
<1> QED BY <1>11 DEF nx, pv

\* The same of the operations on the list, with its registry and its length.
Fields(l) == [first |-> l.first, last |-> l.last, registry |-> l.registry,
              length |-> l.length, next |-> l.next, previous |-> l.previous]

\* insertFirst() puts a new node in front of the sequence,
LEMMA ShowsFirst ==
  ASSUME NEW l, NEW s, Shows(l, s), NEW t \in Tokens, t \notin ToSet(s)
  PROVE  Shows(InsertFirst(l, t), <<t>> \o s)
<1> DEFINE m == InsertFirst(l, t)
           r == <<t>> \o s
<1>1. s \in Seq(Tokens)
  BY DEF Shows
<1>2. /\ l = Fields(l) /\ Linked(l.first, l.last, l.next, l.previous, s)
      /\ l.length = Len(s) /\ l.registry = {s[i] : i \in 1..Len(s)}
  BY <1>1, ShowsLinked DEF Fields
<1>3. \A i \in 1..Len(s) : s[i] # t
  BY <1>1, SetOfSeq
<1>4. /\ m = Fields(m) /\ m.first = t /\ m.last = (IF l.first = 0 THEN t ELSE l.last)
      /\ m.next = Pointed(l.next, t, l.first)
      /\ m.previous = Pointed(Pointed(l.previous, t, 0), l.first, t)
      /\ m.length = l.length + 1 /\ m.registry = l.registry \cup {t}
  BY <1>2 DEF InsertFirst, Fields
<1> HIDE DEF m
<1>5. Linked(m.first, m.last, m.next, m.previous, r)
  BY <1>2, <1>3, <1>4, LinkedFirst
<1>6. <<t>> \in Seq(Tokens) /\ Len(<<t>>) = 1 /\ <<t>>[1] = t /\ Len(s) \in Nat
  BY <1>1, LenProperties
<1>7. /\ r \in Seq(Tokens) /\ Len(r) = 1 + Len(s)
      /\ \A i \in 1..(1 + Len(s)) : r[i] = IF i <= 1 THEN <<t>>[i] ELSE s[i - 1]
  BY <1>1, <1>6, ConcatProperties
<1> HIDE DEF r
<1>8. {r[i] : i \in 1..Len(r)} = {s[i] : i \in 1..Len(s)} \cup {t}
  <2>1. ASSUME NEW i \in 1..Len(r) PROVE r[i] = t \/ \E j \in 1..Len(s) : r[i] = s[j]
    BY <1>6, <1>7
  <2>2. r[1] = t /\ 1 \in 1..Len(r)
    BY <1>6, <1>7
  <2>3. ASSUME NEW j \in 1..Len(s) PROVE j + 1 \in 1..Len(r) /\ r[j + 1] = s[j]
    <3>1. j + 1 \in 1..(1 + Len(s)) /\ ~(j + 1 <= 1) /\ (j + 1) - 1 = j
      BY <1>6
    <3> QED BY <1>7, <3>1
  <2> QED BY <2>1, <2>2, <2>3
<1>9. Shows(m, r)
  <2>0. m.length = Len(s) + 1 /\ Len(r) = 1 + Len(s) /\ Len(s) \in Nat
    BY <1>2, <1>4, <1>6, <1>7
  <2>1. m.length = Len(r)
    BY <2>0
  <2>2. m.registry = {r[i] : i \in 1..Len(r)}
    BY <1>2, <1>4, <1>8
  <2> QED BY <1>4, <1>5, <1>7, <2>1, <2>2, ShowsLinked DEF Fields
<1> QED BY <1>9 DEF m, r

\* insertLast() behind it,
LEMMA ShowsLast ==
  ASSUME NEW l, NEW s, Shows(l, s), NEW t \in Tokens, t \notin ToSet(s)
  PROVE  Shows(InsertLast(l, t), Append(s, t))
<1> DEFINE m == InsertLast(l, t)
           r == Append(s, t)
<1>1. s \in Seq(Tokens)
  BY DEF Shows
<1>2. /\ l = Fields(l) /\ Linked(l.first, l.last, l.next, l.previous, s)
      /\ l.length = Len(s) /\ l.registry = {s[i] : i \in 1..Len(s)}
  BY <1>1, ShowsLinked DEF Fields
<1>3. \A i \in 1..Len(s) : s[i] # t
  BY <1>1, SetOfSeq
<1>4. /\ m = Fields(m) /\ m.last = t /\ m.first = (IF l.last = 0 THEN t ELSE l.first)
      /\ m.next = Pointed(Pointed(l.next, t, 0), l.last, t)
      /\ m.previous = Pointed(l.previous, t, l.last)
      /\ m.length = l.length + 1 /\ m.registry = l.registry \cup {t}
  BY <1>2 DEF InsertLast, Fields
<1> HIDE DEF m
<1>5. Linked(m.first, m.last, m.next, m.previous, r)
  BY <1>2, <1>3, <1>4, LinkedLast
<1>6. Len(s) \in Nat
  BY <1>1, LenProperties
<1>7. /\ r \in Seq(Tokens) /\ Len(r) = Len(s) + 1 /\ r[Len(s) + 1] = t
      /\ \A i \in 1..Len(s) : r[i] = s[i]
  BY <1>1, AppendProperties
<1> HIDE DEF r
<1>8. {r[i] : i \in 1..Len(r)} = {s[i] : i \in 1..Len(s)} \cup {t}
  <2>1. 1..Len(r) = 1..Len(s) \cup {Len(s) + 1}
    BY <1>6, <1>7
  <2> QED BY <1>7, <2>1
<1>9. Shows(m, r)
  <2>1. m.length = Len(r) /\ m.registry = {r[i] : i \in 1..Len(r)}
    BY <1>2, <1>4, <1>6, <1>7, <1>8
  <2> QED BY <1>4, <1>5, <1>7, <2>1, ShowsLinked DEF Fields
<1> QED BY <1>9 DEF m, r

\* removing a node takes it out of the sequence,
LEMMA ShowsRemoved ==
  ASSUME NEW l, NEW s, Shows(l, s), NEW k \in 1..Len(s), NEW r, Less(r, s, k)
  PROVE  Shows(Removed(l, s[k]), r)
<1> DEFINE t == s[k]
           before == l.previous[t]
           behind == l.next[t]
           m == Removed(l, t)
           n == Len(s)
<1>1. s \in Seq(Tokens)
  BY DEF Shows
<1>2. /\ l = Fields(l) /\ Linked(l.first, l.last, l.next, l.previous, s)
      /\ l.length = Len(s) /\ l.registry = {s[i] : i \in 1..Len(s)}
  BY <1>1, ShowsLinked DEF Fields
<1>3. /\ m = Fields(m)
      /\ m.first = (IF before = 0 THEN behind ELSE l.first)
      /\ m.last = (IF behind = 0 THEN before ELSE l.last)
      /\ m.next = Pointed(Pointed(l.next, before, behind), t, 0)
      /\ m.previous = Pointed(Pointed(l.previous, behind, before), t, 0)
      /\ m.length = l.length - 1 /\ m.registry = l.registry \ {t}
  BY <1>2 DEF Removed, Fields
<1> HIDE DEF m
<1>4. Linked(m.first, m.last, m.next, m.previous, r)
  <2> HIDE DEF before, behind
  <2>1. before = l.previous[t] /\ behind = l.next[t]
    BY DEF before, behind
  <2> QED BY <1>2, <1>3, <2>1, LinkedWithout
<1>5. /\ r \in Seq(Tokens) /\ Len(r) = n - 1 /\ n \in Nat
      /\ \A j \in 1..(n - 1) : r[j] = IF j < k THEN s[j] ELSE s[j + 1]
      /\ \A i, j \in 1..n : s[i] = s[j] => i = j
  <2>1. n \in Nat
    BY <1>1, LenProperties
  <2> QED BY <1>2, <2>1 DEF Less, Linked
<1>6. {r[i] : i \in 1..Len(r)} = {s[i] : i \in 1..n} \ {t}
  <2>1. ASSUME NEW j \in 1..(n - 1) PROVE \E i \in 1..n : r[j] = s[i] /\ i # k
    BY <1>5
  <2>2. ASSUME NEW i \in 1..n, i # k PROVE \E j \in 1..(n - 1) : r[j] = s[i]
    <3>1. CASE i < k
      BY <1>5, <3>1
    <3>2. CASE i > k
      <4>1. i - 1 \in 1..(n - 1) /\ ~(i - 1 < k) /\ (i - 1) + 1 = i
        BY <1>5, <3>2
      <4> QED BY <1>5, <4>1
    <3> QED BY <2>2, <3>1, <3>2
  <2>3. \A i \in 1..n : s[i] = t <=> i = k
    BY <1>5
  <2> HIDE DEF t
  <2>4. ASSUME NEW x \in {s[i] : i \in 1..n} \ {t} PROVE \E j \in 1..Len(r) : x = r[j]
    <3>1. PICK i \in 1..n : x = s[i]
      OBVIOUS
    <3>2. i # k
      BY <2>3, <3>1
    <3> QED BY <1>5, <2>2, <3>1, <3>2
  <2>5. ASSUME NEW j \in 1..Len(r) PROVE r[j] \in {s[i] : i \in 1..n} \ {t}
    BY <1>5, <2>1, <2>3
  <2> QED BY <2>4, <2>5
<1>7. Shows(m, r)
  <2>1. m.length = Len(r) /\ m.registry = {r[i] : i \in 1..Len(r)}
    BY <1>2, <1>3, <1>5, <1>6
  <2> QED BY <1>3, <1>4, <1>5, <2>1, ShowsLinked DEF Fields
<1> QED BY <1>7 DEF m

\* and clear() leaves nothing.
LEMMA ShowsNothing ==
  ASSUME NEW l, NEW s, Shows(l, s)
  PROVE  Shows(Clear(l), <<>>)
<1> DEFINE m == Clear(l)
<1>1. l \in ListRecord
  BY DEF Shows
<1>2. l.next \in Pointers /\ l.previous \in Pointers
  BY <1>1 DEF ListRecord, Pointers
<1>3. /\ m = Fields(m) /\ m.first = 0 /\ m.last = 0 /\ m.length = 0 /\ m.registry = {}
      /\ m.next = Pointed(l.next, l.first, 0) /\ m.previous = Pointed(l.previous, l.last, 0)
  BY <1>1 DEF Clear, ListRecord, Fields
<1> HIDE DEF m
<1>4. m.next \in Pointers /\ m.previous \in Pointers
  BY <1>2, <1>3, PointedAt
<1>5. <<>> \in Seq(Tokens) /\ Len(<<>>) = 0 /\ {<<>>[i] : i \in 1..Len(<<>>)} = {}
  BY EmptySeq
<1>6. Linked(m.first, m.last, m.next, m.previous, <<>>)
  BY <1>3, <1>4, <1>5 DEF Linked
<1>7. Shows(m, <<>>)
  BY <1>3, <1>5, <1>6, ShowsLinked DEF Fields
<1> QED BY <1>7 DEF m

-----------------------------------------------------------------------------
\* A sequence without repetitions is no longer than there are tokens.
LEMMA NoLonger ==
  ASSUME NEW s \in Seq(Tokens), \A i, j \in 1..Len(s) : s[i] = s[j] => i = j
  PROVE  Cardinality(Tokens) \in Nat /\ Len(s) <= Cardinality(Tokens)
<1>1. Len(s) \in Nat /\ s \in [1..Len(s) -> Tokens]
  BY LenProperties
<1>2. s \in Injection(1..Len(s), Tokens)
  BY <1>1 DEF Injection, IsInjective
<1>3. Cardinality(1..Len(s)) <= Cardinality(Tokens)
  BY <1>2, FS_Injection, TokensAssumption
<1>4. Cardinality(1..Len(s)) = Len(s)
  BY <1>1, FS_Interval
<1> QED BY <1>3, <1>4, FS_CardinalityType, TokensAssumption

\* A walk from the first node of a sequence along its pointers goes through it.
Leads(start, pointer, s) ==
    /\ s \in Seq(Tokens) /\ \A i, j \in 1..Len(s) : s[i] = s[j] => i = j
    /\ start = IF s = <<>> THEN 0 ELSE s[1]
    /\ \A i \in 1..Len(s) : pointer[s[i]] = IF i = Len(s) THEN 0 ELSE s[i + 1]

Onward(start, pointer, p) == IF p = <<>> THEN start ELSE IF Last(p) = 0 THEN 0 ELSE pointer[Last(p)]
Further(p, t) == IF t = 0 THEN p ELSE Append(p, t)

\* Following a pointer adds the next node of the sequence, until there is none.
LEMMA OneNodeOn ==
  ASSUME NEW start, NEW pointer, NEW s, Leads(start, pointer, s),
         NEW k \in 0..Len(s)
  PROVE  Further(SubSeq(s, 1, k), Onward(start, pointer, SubSeq(s, 1, k)))
           = SubSeq(s, 1, IF k = Len(s) THEN k ELSE k + 1)
<1> DEFINE n == Len(s)
           p == SubSeq(s, 1, k)
<1>1. s \in Seq(Tokens) /\ n \in Nat /\ k \in 0..n
  BY LenProperties DEF Leads
<1>2. \A i \in 1..n : s[i] \in Tokens /\ s[i] # 0
  BY <1>1, ElementOfSeq, TokensAssumption
<1>3. p \in Seq(Tokens) /\ Len(p) = k /\ \A i \in 1..k : p[i] = s[i]
  <2>1. \A i \in 1..k : s[i] \in Tokens
    BY <1>1, <1>2
  <2>2. p \in Seq(Tokens) /\ Len(p) = (IF 1 <= k THEN k - 1 + 1 ELSE 0) /\ \A i \in 1..(k - 1 + 1) : p[i] = s[1 + i - 1]
    BY <1>1, <2>1, SubSeqProperties
  <2>3. (IF 1 <= k THEN k - 1 + 1 ELSE 0) = k /\ k - 1 + 1 = k
    BY <1>1
  <2>4. \A i \in 1..k : 1 + i - 1 = i
    BY <1>1
  <2> HIDE DEF p
  <2> QED BY <2>2, <2>3, <2>4
<1> HIDE DEF p
<1>4. Onward(start, pointer, p) = IF k = n THEN 0 ELSE s[k + 1]
  <2>1. CASE k = 0
    <3>1. p = <<>>
      BY <1>3, <2>1, EmptySeq
    <3>2. s = <<>> <=> n = 0
      BY <1>1, EmptySeq
    <3> QED BY <1>1, <2>1, <3>1, <3>2 DEF Onward, Leads
  <2>2. CASE k # 0
    <3>1. k \in 1..n /\ k \in 1..k /\ p # <<>>
      BY <1>1, <1>3, <2>2, EmptySeq
    <3>2. Last(p) = s[k] /\ s[k] # 0
      BY <1>2, <1>3, <3>1 DEF Last
    <3> QED BY <1>1, <3>1, <3>2 DEF Onward, Leads
  <2> QED BY <2>1, <2>2
<1>5. CASE k = n
  BY <1>4, <1>5 DEF Further, p
<1>6. CASE k # n
  <2>1. k + 1 \in 1..n /\ s[k + 1] \in Tokens /\ s[k + 1] # 0
    BY <1>1, <1>2, <1>6
  <2>2. Further(p, Onward(start, pointer, p)) = Append(p, s[k + 1])
    BY <1>4, <1>6, <2>1 DEF Further
  <2>3. 1 \in 1..n /\ k + 1 \in 1..n /\ (k + 1) - 1 = k
    BY <1>1, <1>6
  <2>4. SubSeq(s, 1, k + 1) = p \o <<s[k + 1]>>
    <3>1. SubSeq(s, 1, k + 1) = SubSeq(s, 1, (k + 1) - 1) \o <<s[k + 1]>>
      BY <1>1, <2>3, SubSeqRecursiveSecond
    <3> QED BY <2>3, <3>1 DEF p
  <2>5. Append(p, s[k + 1]) = p \o <<s[k + 1]>>
    BY <1>3, <2>1, AppendIsConcat
  <2> QED BY <1>6, <2>2, <2>4, <2>5 DEF p
<1> QED BY <1>5, <1>6

\* So following the pointers gives the sequence.
LEMMA WalkLeads ==
  ASSUME NEW start, NEW pointer, NEW s, Leads(start, pointer, s)
  PROVE  Walk(start, pointer) = s
<1> DEFINE n == Len(s)
           C == Cardinality(Tokens)
           upto(i) == SubSeq(s, 1, IF i < n THEN i ELSE n)
           more(p) == Further(p, Onward(start, pointer, p))
           h == [i \in 0..C |-> upto(i)]
           F == CHOOSE f : f = [i \in 0..C |-> IF i = 0 THEN <<>> ELSE more(f[i - 1])]
<1>1. s \in Seq(Tokens) /\ n \in Nat /\ C \in Nat /\ n <= C
  BY NoLonger, LenProperties DEF Leads
<1>2. upto(0) = <<>> /\ upto(C) = s
  <2>1. SubSeq(s, 1, 0) = <<>>
    BY SubSeqEmpty
  <2>2. SubSeq(s, 1, n) = s
    BY <1>1, SubSeqFull
  <2>3. (IF 0 < n THEN 0 ELSE n) = 0 /\ (IF C < n THEN C ELSE n) = n
    BY <1>1
  <2> QED BY <2>1, <2>2, <2>3
<1>3. ASSUME NEW i \in 1..C PROVE upto(i) = more(upto(i - 1))
  <2> DEFINE k == IF i - 1 < n THEN i - 1 ELSE n
  <2>1. k \in 0..n /\ (IF k = n THEN k ELSE k + 1) = IF i < n THEN i ELSE n
    BY <1>1
  <2>2. more(SubSeq(s, 1, k)) = SubSeq(s, 1, IF k = n THEN k ELSE k + 1)
    <3> HIDE DEF k
    <3> QED BY <2>1, OneNodeOn
  <2> QED BY <2>1, <2>2
<1> HIDE DEF upto, more
<1>4. h = [i \in 0..C |-> IF i = 0 THEN <<>> ELSE more(h[i - 1])]
  <2>1. \A i \in 0..C : i = 0 \/ (i \in 1..C /\ i - 1 \in 0..C)
    BY <1>1
  <2>2. \A i \in 0..C : upto(i) = IF i = 0 THEN <<>> ELSE more(h[i - 1])
    BY <1>2, <1>3, <2>1
  <2> QED BY <2>2
<1>5. F = [i \in 0..C |-> IF i = 0 THEN <<>> ELSE more(F[i - 1])]
  <2> HIDE DEF h
  <2> QED BY <1>4
<1>6. Walk(start, pointer) = F[C]
  BY DEF Walk, more, Further, Onward
<1> HIDE DEF F
<1>7. \A i \in 0..C : F[i] = upto(i)
  <2> DEFINE E == {i \in 0..C : F[i] = upto(i)}
  <2>1. ASSUME NEW i \in 1..C, i - 1 \in E
        PROVE  i \in E
    <3>1. F[i] = more(F[i - 1]) /\ F[i - 1] = upto(i - 1)
      BY <1>1, <1>5, <2>1
    <3> QED BY <1>3, <3>1
  <2>2. 0 \in E
    BY <1>1, <1>2, <1>5
  <2> HIDE DEF E
  <2>3. 0..C \subseteq E
    BY <1>1, <2>1, <2>2, InductionUpTo
  <2> QED BY <2>3 DEF E
<1> QED BY <1>1, <1>2, <1>6, <1>7

-----------------------------------------------------------------------------
\* What the operations do to a list that shows its sequence.
LEMMA PutShows ==
  ASSUME ListIndInv
  PROVE  /\ PutFirst => Shows(list', items')
         /\ PutLast => Shows(list', items')
<1>1. Shows(list, items)
  BY DEF ListIndInv
<1>2. \A t \in Unused : t \in Tokens /\ t \notin ToSet(items)
  BY DEF Unused
<1>3. ASSUME PutFirst PROVE Shows(list', items')
  <2>1. PICK t \in Unused : list' = InsertFirst(list, t) /\ items' = <<t>> \o items
    BY <1>3 DEF PutFirst
  <2> QED BY <1>1, <1>2, <2>1, ShowsFirst
<1>4. ASSUME PutLast PROVE Shows(list', items')
  <2>1. PICK t \in Unused : list' = InsertLast(list, t) /\ items' = Append(items, t)
    BY <1>4 DEF PutLast
  <2> QED BY <1>1, <1>2, <2>1, ShowsLast
<1> QED BY <1>3, <1>4

\* Removing the k-th element leaves the others in their order,
LEMMA LessByOne ==
  ASSUME NEW s \in Seq(Tokens), NEW k \in 1..Len(s)
  PROVE  Less(RemoveAt(s, k), s, k)
<1> DEFINE n == Len(s)
           p == SubSeq(s, 1, k - 1)
           q == SubSeq(s, k + 1, n)
<1>1. n \in Nat /\ k \in 1..n /\ \A i \in 1..n : s[i] \in Tokens
  BY LenProperties, ElementOfSeq
<1>2. p \in Seq(Tokens) /\ Len(p) = k - 1 /\ \A i \in 1..(k - 1) : p[i] = s[i]
  <2>1. \A i \in 1..(k - 1) : s[i] \in Tokens
    BY <1>1
  <2>2. /\ p \in Seq(Tokens) /\ Len(p) = IF 1 <= k - 1 THEN k - 1 - 1 + 1 ELSE 0
        /\ \A i \in 1..(k - 1 - 1 + 1) : p[i] = s[1 + i - 1]
    BY <1>1, <2>1, SubSeqProperties
  <2>3. (IF 1 <= k - 1 THEN k - 1 - 1 + 1 ELSE 0) = k - 1 /\ k - 1 - 1 + 1 = k - 1
    BY <1>1
  <2>4. \A i \in 1..(k - 1) : 1 + i - 1 = i
    BY <1>1
  <2> HIDE DEF p
  <2> QED BY <2>2, <2>3, <2>4
<1>3. q \in Seq(Tokens) /\ Len(q) = n - k /\ \A i \in 1..(n - k) : q[i] = s[k + i]
  <2>1. \A i \in (k + 1)..n : s[i] \in Tokens
    BY <1>1
  <2>2. /\ q \in Seq(Tokens) /\ Len(q) = IF k + 1 <= n THEN n - (k + 1) + 1 ELSE 0
        /\ \A i \in 1..(n - (k + 1) + 1) : q[i] = s[(k + 1) + i - 1]
    BY <1>1, <2>1, SubSeqProperties
  <2>3. (IF k + 1 <= n THEN n - (k + 1) + 1 ELSE 0) = n - k /\ n - (k + 1) + 1 = n - k
    BY <1>1
  <2>4. \A i \in 1..(n - k) : (k + 1) + i - 1 = k + i
    BY <1>1
  <2> HIDE DEF q
  <2> QED BY <2>2, <2>3, <2>4
<1> HIDE DEF p, q
<1>4. /\ p \o q \in Seq(Tokens) /\ Len(p \o q) = Len(p) + Len(q)
      /\ \A i \in 1..(Len(p) + Len(q)) : (p \o q)[i] = IF i <= Len(p) THEN p[i] ELSE q[i - Len(p)]
  BY <1>2, <1>3, ConcatProperties
<1> DEFINE r == p \o q
<1> HIDE DEF r
<1>5. r \in Seq(Tokens) /\ Len(r) = n - 1
  <2>1. Len(p) + Len(q) = n - 1
    BY <1>1, <1>2, <1>3
  <2> QED BY <1>4, <2>1 DEF r
<1>6. ASSUME NEW j \in 1..(n - 1) PROVE r[j] = IF j < k THEN s[j] ELSE s[j + 1]
  <2>1. r[j] = IF j <= k - 1 THEN p[j] ELSE q[j - (k - 1)]
    <3>1. j \in 1..(Len(p) + Len(q))
      BY <1>1, <1>2, <1>3
    <3> QED BY <1>2, <1>4, <3>1 DEF r
  <2>2. CASE j < k
    BY <1>1, <1>2, <2>1, <2>2
  <2>3. CASE ~(j < k)
    <3>1. j - (k - 1) \in 1..(n - k) /\ k + (j - (k - 1)) = j + 1 /\ ~(j <= k - 1)
      BY <1>1, <2>3
    <3> QED BY <1>3, <2>1, <2>3, <3>1
  <2> QED BY <2>2, <2>3
<1>7. Less(r, s, k)
  BY <1>5, <1>6 DEF Less
<1> QED BY <1>7 DEF r, p, q, RemoveAt

\* and so do dropping the first and the last.
LEMMA LessAtTheEnds ==
  ASSUME NEW s \in Seq(Tokens), s # <<>>
  PROVE  /\ 1 \in 1..Len(s) /\ Less(Tail(s), s, 1)
         /\ Len(s) \in 1..Len(s) /\ Less(Front(s), s, Len(s))
<1> DEFINE n == Len(s)
<1>1. n \in Nat /\ n # 0 /\ 1 \in 1..n /\ n \in 1..n /\ \A i \in 1..n : s[i] \in Tokens
  BY LenProperties, ElementOfSeq, EmptySeq
<1>2. Less(Tail(s), s, 1)
  <2>1. /\ Tail(s) \in Seq(Tokens) /\ Len(Tail(s)) = n - 1
        /\ \A i \in 1..Len(Tail(s)) : Tail(s)[i] = s[i + 1]
    BY HeadTailProperties
  <2>2. \A j \in 1..(n - 1) : ~(j < 1)
    BY <1>1
  <2> QED BY <2>1, <2>2 DEF Less
<1>3. Less(Front(s), s, n)
  <2> DEFINE p == SubSeq(s, 1, n - 1)
  <2>1. \A i \in 1..(n - 1) : s[i] \in Tokens
    BY <1>1
  <2>2. /\ p \in Seq(Tokens) /\ Len(p) = IF 1 <= n - 1 THEN n - 1 - 1 + 1 ELSE 0
        /\ \A i \in 1..(n - 1 - 1 + 1) : p[i] = s[1 + i - 1]
    BY <1>1, <2>1, SubSeqProperties
  <2>3. (IF 1 <= n - 1 THEN n - 1 - 1 + 1 ELSE 0) = n - 1 /\ n - 1 - 1 + 1 = n - 1
    <3>1. n \in Nat \ {0}
      BY <1>1
    <3> HIDE DEF n
    <3> QED BY ONLY <3>1
  <2>4. \A i \in 1..(n - 1) : 1 + i - 1 = i /\ i < n
    BY <1>1
  <2> HIDE DEF p
  <2>5. Less(p, s, n)
    BY <2>2, <2>3, <2>4 DEF Less
  <2> QED BY <2>5 DEF p, Front
<1> QED BY <1>1, <1>2, <1>3

\* The operations that take nodes out leave a list that shows its sequence.
LEMMA TakeShows ==
  ASSUME ListIndInv
  PROVE  /\ TakeFirst => Shows(list', items')
         /\ TakeLast => Shows(list', items')
         /\ TakeAll => Shows(list', items')
         /\ \A t : TakeOut(t) => Shows(list', items')
<1>1. Shows(list, items)
  BY DEF ListIndInv
<1>2. /\ items \in Seq(Tokens) /\ list.registry = ToSet(items)
      /\ list.first = IF items = <<>> THEN 0 ELSE items[1]
      /\ list.last = IF items = <<>> THEN 0 ELSE items[Len(items)]
  BY <1>1 DEF Shows
<1>3. /\ Len(items) \in Nat /\ \A i \in 1..Len(items) : items[i] \in Tokens /\ items[i] # 0
      /\ ToSet(items) = {items[i] : i \in 1..Len(items)}
  BY <1>2, LenProperties, ElementOfSeq, TokensAssumption, SetOfSeq
<1>4. ASSUME NEW k \in 1..Len(items), NEW r, Less(r, items, k)
      PROVE  Shows(Removed(list, items[k]), r)
  BY <1>1, <1>4, ShowsRemoved
<1>5. ASSUME TakeFirst PROVE Shows(list', items')
  <2>1. list' = WithoutFirst(list) /\ items' = IF items = <<>> THEN items ELSE Tail(items)
    BY <1>5 DEF TakeFirst
  <2>2. CASE items = <<>>
    <3>1. list' = list /\ items' = items
      BY <1>2, <2>1, <2>2 DEF WithoutFirst
    <3> QED BY <1>1, <3>1
  <2>3. CASE items # <<>>
    <3>1. 1 \in 1..Len(items) /\ Less(Tail(items), items, 1)
      BY <1>2, <2>3, LessAtTheEnds
    <3>2. list' = Removed(list, items[1]) /\ items' = Tail(items)
      BY <1>2, <1>3, <2>1, <2>3, <3>1 DEF WithoutFirst
    <3> QED BY <1>4, <3>1, <3>2
  <2> QED BY <2>2, <2>3
<1>6. ASSUME TakeLast PROVE Shows(list', items')
  <2>1. list' = WithoutLast(list) /\ items' = IF items = <<>> THEN items ELSE Front(items)
    BY <1>6 DEF TakeLast
  <2>2. CASE items = <<>>
    <3>1. list' = list /\ items' = items
      BY <1>2, <2>1, <2>2 DEF WithoutLast
    <3> QED BY <1>1, <3>1
  <2>3. CASE items # <<>>
    <3>1. Len(items) \in 1..Len(items) /\ Less(Front(items), items, Len(items))
      BY <1>2, <2>3, LessAtTheEnds
    <3>2. list' = Removed(list, items[Len(items)]) /\ items' = Front(items)
      BY <1>2, <1>3, <2>1, <2>3, <3>1 DEF WithoutLast
    <3> QED BY <1>4, <3>1, <3>2
  <2> QED BY <2>2, <2>3
<1>7. ASSUME TakeAll PROVE Shows(list', items')
  BY <1>1, <1>7, ShowsNothing DEF TakeAll
<1>8. ASSUME NEW t, TakeOut(t) PROVE Shows(list', items')
  <2>1. CASE t \notin ToSet(items)
    <3>1. list' = list
      BY <1>2, <1>8, <2>1 DEF TakeOut, WithoutToken
    <3>2. items' = items
      BY <1>3, <1>8, <2>1 DEF TakeOut
    <3> QED BY <1>1, <3>1, <3>2
  <2>2. CASE t \in ToSet(items)
    <3>1. PICK i \in 1..Len(items) : items[i] = t /\ items' = RemoveAt(items, i)
      BY <1>8, <2>2 DEF TakeOut
    <3>2. list' = Removed(list, items[i])
      BY <1>2, <1>8, <2>2, <3>1 DEF TakeOut, WithoutToken
    <3>3. Less(RemoveAt(items, i), items, i)
      BY <1>2, LessByOne
    <3> QED BY <1>4, <3>1, <3>2, <3>3
  <2> QED BY <2>1, <2>2
<1> QED BY <1>5, <1>6, <1>7, <1>8

-----------------------------------------------------------------------------
\* Where a walk over a sequence stands: WalkGoesOn as a formula of any two values.
Stands(w, s) ==
    /\ w \in [current : Tokens \cup {0}, awaiting : SUBSET Tokens, called : Seq(Tokens)]
    /\ IsInjective(w.called)
    /\ IF w.current = 0 THEN w.awaiting = {}
       ELSE \E i \in 1..Len(s) :
               /\ s[i] = w.current
               /\ w.awaiting \subseteq {s[j] : j \in i..Len(s)}
               /\ \A j \in i..Len(s) : s[j] \notin ToSet(w.called)

\* A walk that has called the node in place i goes on along r, when r holds the nodes
\* behind that one from place k on, and nobody there was called.
Continues(r, k, s, i) ==
    /\ k \in 1..Len(r) /\ r[k] = s[i + 1]
    /\ {s[j] : j \in (i + 1)..Len(s)} \subseteq {r[j] : j \in k..Len(r)}

\* Whoever is called next has not been called, and those behind it are still to come.
LEMMA CalledOnce ==
  ASSUME NEW w, NEW s \in Seq(Tokens), Stands(w, s), w.current # 0,
         \A i, j \in 1..Len(s) : s[i] = s[j] => i = j
  PROVE  \E i \in 1..Len(s) :
           /\ s[i] = w.current
           /\ Append(w.called, w.current) \in Seq(Tokens)
           /\ IsInjective(Append(w.called, w.current))
           /\ ToSet(Append(w.called, w.current)) = ToSet(w.called) \cup {w.current}
           /\ w.awaiting \ {w.current} \subseteq {s[j] : j \in (i + 1)..Len(s)}
           /\ \A j \in (i + 1)..Len(s) : s[j] \notin ToSet(Append(w.called, w.current))
<1> DEFINE c == w.called
           t == w.current
           a == Append(c, t)
           m == Len(c)
           n == Len(s)
<1>1. c \in Seq(Tokens) /\ t \in Tokens /\ IsInjective(c)
  BY DEF Stands
<1>2. PICK i \in 1..n : /\ s[i] = t
                        /\ w.awaiting \subseteq {s[j] : j \in i..n}
                        /\ \A j \in i..n : s[j] \notin ToSet(c)
  BY DEF Stands
<1>3. n \in Nat /\ m \in Nat
  BY <1>1, LenProperties
<1>4. a \in Seq(Tokens) /\ Len(a) = m + 1 /\ a[m + 1] = t /\ \A j \in 1..m : a[j] = c[j]
  BY <1>1, AppendProperties
<1>5. ToSet(c) = {c[j] : j \in 1..m} /\ \A j, k \in 1..m : c[j] = c[k] => j = k
  BY <1>1, SetOfSeq
<1> HIDE DEF a, c, t
<1>6. ToSet(a) = ToSet(c) \cup {t}
  <2>1. ToSet(a) = {a[j] : j \in 1..Len(a)}
    BY <1>4, SetOfSeq
  <2>2. 1..Len(a) = 1..m \cup {m + 1}
    BY <1>3, <1>4
  <2>3. ToSet(a) = {a[j] : j \in 1..m \cup {m + 1}}
    BY <2>1, <2>2
  <2>4. \A j \in 1..m : a[j] = c[j]
    BY <1>4
  <2> QED BY ONLY <1>4, <1>5, <2>3, <2>4
<1>7. IsInjective(a)
  <2>1. \A j \in 1..m : c[j] # t
    <3>1. i \in i..n
      BY <1>3
    <3> QED BY <1>2, <1>5, <3>1
  <2>2. \A j \in 1..Len(a) : j \in 1..m \/ j = m + 1
    BY <1>3, <1>4
  <2>3. \A j, k \in 1..Len(a) : a[j] = a[k] => j = k
    BY <1>4, <1>5, <2>1, <2>2
  <2> QED BY <1>4, <2>3, SetOfSeq
<1>8. \A j \in (i + 1)..n : j \in i..n /\ j \in 1..n /\ j # i
  BY <1>3
<1>9. \A j \in i..n : j = i \/ j \in (i + 1)..n
  BY <1>3
<1>10. w.awaiting \ {t} \subseteq {s[j] : j \in (i + 1)..n}
  BY <1>2, <1>9
<1>11. \A j \in (i + 1)..n : s[j] \notin ToSet(a)
  BY <1>2, <1>6, <1>8
<1> QED BY <1>2, <1>4, <1>6, <1>7, <1>10, <1>11 DEF a, c, t

\* A call goes on with the node behind, wherever the callback removed nodes.
LEMMA CallGoesOn ==
  ASSUME ListIndInv, walk.current # 0, Call(walk.current)
  PROVE  Stands(walk', items')
<1> DEFINE s == items
           n == Len(items)
           t == walk.current
           a == Append(walk.called, t)
<1>1. Shows(list, items) /\ Stands(walk, items)
  BY DEF ListIndInv, WalkGoesOn, Stands
<1>2. /\ s \in Seq(Tokens) /\ \A i, j \in 1..n : s[i] = s[j] => i = j
      /\ \A i \in 1..n : list.next[s[i]] = IF i = n THEN 0 ELSE s[i + 1]
  <2>1. s \in Seq(Tokens) /\ IsInjective(s)
    BY <1>1 DEF Shows
  <2>2. \A i, j \in 1..n : s[i] = s[j] => i = j
    BY <2>1, SetOfSeq
  <2>3. \A i \in 1..n : list.next[s[i]] = IF i = n THEN 0 ELSE s[i + 1]
    BY <1>1 DEF Shows
  <2> QED BY <2>1, <2>2, <2>3
<1>3. n \in Nat /\ \A i \in 1..n : s[i] \in Tokens /\ s[i] # 0
  BY <1>2, LenProperties, ElementOfSeq, TokensAssumption
<1>4. PICK i \in 1..n :
        /\ s[i] = t /\ a \in Seq(Tokens) /\ IsInjective(a)
        /\ ToSet(a) = ToSet(walk.called) \cup {t}
        /\ walk.awaiting \ {t} \subseteq {s[j] : j \in (i + 1)..n}
        /\ \A j \in (i + 1)..n : s[j] \notin ToSet(a)
  BY <1>1, <1>2, CalledOnce
<1>5. walk' = [current |-> list.next[t], awaiting |-> walk.awaiting \ {t}, called |-> a]
  BY DEF Call
<1>6. list.next[t] = IF i = n THEN 0 ELSE s[i + 1]
  BY <1>2, <1>4
<1>7. walk.awaiting \in SUBSET Tokens
  BY <1>1 DEF Stands
<1> DEFINE b == walk.awaiting \ {t}
<1>8. b \in SUBSET Tokens
  BY <1>7
<1>9. b \subseteq {s[j] : j \in (i + 1)..n}
  BY <1>4
<1>10. CASE i = n
  <2>1. (i + 1)..n = {}
    BY <1>3, <1>10
  <2>2. b = {}
    BY <1>9, <2>1
  <2> HIDE DEF a, b
  <2>3. walk' = [current |-> 0, awaiting |-> {}, called |-> a]
    BY <1>5, <1>6, <1>10, <2>2 DEF b
  <2> QED BY <1>4, <2>3 DEF Stands
<1>11. CASE i # n
  <2>1. i + 1 \in 1..n /\ i + 1 \in (i + 1)..n /\ \A j \in (i + 1)..n : j \in 1..n /\ j # i
    BY <1>3, <1>11
  <2>2. s[i + 1] \in Tokens /\ s[i + 1] # 0
    BY <1>3, <2>1
  <2>3. ASSUME NEW r, NEW k, Continues(r, k, s, i), items' = r,
               \A j \in k..Len(r) : r[j] \notin ToSet(a)
        PROVE  Stands(walk', items')
    <3> HIDE DEF a, b
    <3>1. walk' = [current |-> s[i + 1], awaiting |-> b, called |-> a]
      BY <1>5, <1>6, <1>11 DEF b
    <3>2. /\ walk'.current = s[i + 1] /\ walk'.awaiting = b /\ walk'.called = a
          /\ walk' \in [current : Tokens \cup {0}, awaiting : SUBSET Tokens, called : Seq(Tokens)]
      BY <1>4, <1>8, <2>2, <3>1
    <3>3. b \subseteq {r[j] : j \in k..Len(r)}
      <4>1. {s[j] : j \in (i + 1)..n} \subseteq {r[j] : j \in k..Len(r)}
        BY <2>3 DEF Continues
      <4> QED BY <1>9, <4>1
    <3>4. k \in 1..Len(r) /\ r[k] = s[i + 1]
      BY <2>3 DEF Continues
    <3> QED BY <1>4, <2>2, <2>3, <3>2, <3>3, <3>4 DEF Stands
  <2>4. CASE UNCHANGED <<list, items>>
    <3>1. Continues(s, i + 1, s, i)
      BY <2>1 DEF Continues
    <3>2. items' = s
      BY <2>4
    <3> QED BY <1>4, <2>3, <3>1, <3>2
  <2>5. CASE TakeOut(t)
    <3>1. t \in ToSet(s)
      BY <1>2, <1>4, SetOfSeq
    <3>2. PICK k \in 1..n : s[k] = t /\ items' = RemoveAt(s, k)
      BY <2>5, <3>1 DEF TakeOut
    <3>3. k = i
      BY <1>2, <1>4, <3>2
    <3> DEFINE r == RemoveAt(s, i)
    <3>4. Less(r, s, i)
      BY <1>2, LessByOne
    <3> HIDE DEF r
    <3>5. Len(r) = n - 1 /\ \A j \in i..(n - 1) : r[j] = s[j + 1]
      <4>1. \A j \in i..(n - 1) : j \in 1..(n - 1) /\ ~(j < i)
        BY <1>3
      <4> QED BY <3>4, <4>1 DEF Less
    <3>6. Continues(r, i, s, i)
      <4>1. i \in 1..(n - 1) /\ i \in i..(n - 1)
        BY <1>3, <1>11
      <4>2. ASSUME NEW j \in (i + 1)..n PROVE \E x \in i..(n - 1) : s[j] = r[x]
        <5>1. j - 1 \in i..(n - 1) /\ (j - 1) + 1 = j
          BY <1>3
        <5> QED BY <3>5, <5>1
      <4>3. {s[j] : j \in (i + 1)..n} \subseteq {r[j] : j \in i..Len(r)}
        <5>1. {s[j] : j \in (i + 1)..n} \subseteq {r[j] : j \in i..(n - 1)}
          BY <4>2
        <5> QED BY <3>5, <5>1
      <4>4. i \in 1..Len(r) /\ r[i] = s[i + 1]
        BY <3>5, <4>1
      <4> QED BY <4>3, <4>4 DEF Continues
    <3>7. \A j \in i..Len(r) : r[j] \notin ToSet(a)
      <4>1. \A j \in i..(n - 1) : j + 1 \in (i + 1)..n
        BY <1>3
      <4> QED BY <1>4, <3>5, <4>1
    <3> QED BY <2>3, <3>2, <3>3, <3>6, <3>7 DEF r
  <2>6. CASE PutLast
    <3>1. PICK u \in Unused : items' = Append(items, u)
      BY <2>6 DEF PutLast
    <3>2. u \in Tokens /\ u \notin ToSet(a)
      BY <1>4 DEF Unused
    <3> DEFINE r == Append(s, u)
    <3>3. Len(r) = n + 1 /\ r[n + 1] = u /\ \A j \in 1..n : r[j] = s[j]
      BY <1>2, <3>2, AppendProperties
    <3> HIDE DEF r
    <3>4. Continues(r, i + 1, s, i)
      <4>1. i + 1 \in 1..(n + 1) /\ \A j \in (i + 1)..n : j \in (i + 1)..(n + 1)
        BY <1>3
      <4> QED BY <2>1, <3>3, <4>1 DEF Continues
    <3>5. \A j \in (i + 1)..Len(r) : r[j] \notin ToSet(a)
      <4>1. \A j \in (i + 1)..(n + 1) : j \in (i + 1)..n \/ j = n + 1
        BY <1>3
      <4> QED BY <1>4, <2>1, <3>2, <3>3, <4>1
    <3> QED BY <2>3, <3>1, <3>4, <3>5 DEF r
  <2> QED BY <2>4, <2>5, <2>6 DEF Call
<1> QED BY <1>10, <1>11

\* trigger() begins with the first of those registered.
LEMMA StartGoesOn ==
  ASSUME ListIndInv, StartWalk
  PROVE  Shows(list', items') /\ Stands(walk', items')
<1>1. Shows(list, items)
  BY DEF ListIndInv
<1>2. list' = list /\ items' = items
  BY DEF StartWalk
<1>3. /\ items \in Seq(Tokens) /\ items # <<>> /\ list.first = items[1]
  BY <1>1 DEF Shows, StartWalk
<1>4. /\ Len(items) \in Nat /\ 1 \in 1..Len(items) /\ items[1] \in Tokens
      /\ ToSet(items) = {items[i] : i \in 1..Len(items)} /\ ToSet(items) \subseteq Tokens
  BY <1>3, EmptySeq, LenProperties, ElementOfSeq, SetOfSeq
<1>5. walk' = [current |-> items[1], awaiting |-> ToSet(items), called |-> <<>>]
  BY <1>3 DEF StartWalk, NoWalk
<1>6. <<>> \in Seq(Tokens) /\ ToSet(<<>>) = {} /\ IsInjective(<<>>)
  BY NothingTwice
<1>7. Stands(walk', items)
  <2>1. items[1] # 0
    BY <1>4, TokensAssumption
  <2> HIDE <1>3
  <2> QED BY <1>4, <1>5, <1>6, <2>1 DEF Stands
<1> QED BY <1>1, <1>2, <1>7

\* The list shows its sequence, and a walk has everyone before it who still waits.
THEOREM ListIndInvHolds == ListSpec => []ListIndInv
<1>1. ListInit => ListIndInv
  <2> SUFFICES ASSUME ListInit PROVE ListIndInv
    OBVIOUS
  <2>1. <<>> \in Seq(Tokens) /\ Len(<<>>) = 0 /\ {<<>>[i] : i \in 1..Len(<<>>)} = {}
    BY EmptySeq
  <2>2. /\ list = Fields(list) /\ list.first = 0 /\ list.last = 0
        /\ list.length = 0 /\ list.registry = {}
        /\ list.next = [t \in Tokens |-> 0] /\ list.previous = [t \in Tokens |-> 0]
    BY DEF ListInit, EmptyList, Fields
  <2>3. Linked(list.first, list.last, list.next, list.previous, <<>>)
    BY <2>1, <2>2 DEF Linked, Pointers
  <2>4. Shows(list, <<>>)
    BY <2>1, <2>2, <2>3, ShowsLinked DEF Fields
  <2>5. IsInjective(<<>>)
    BY NothingTwice
  <2>6. WalkGoesOn
    BY <2>1, <2>5 DEF ListInit, NoWalk, WalkGoesOn
  <2> QED BY <2>4, <2>6 DEF ListInit, ListIndInv
<1>2. ListIndInv /\ [ListNext]_listVars => ListIndInv'
  <2> SUFFICES ASSUME ListIndInv, [ListNext]_listVars PROVE ListIndInv'
    OBVIOUS
  <2>1. Shows(list, items) /\ Stands(walk, items)
    BY DEF ListIndInv, WalkGoesOn, Stands
  <2>2. Stands(walk', items') => WalkGoesOn'
    BY DEF WalkGoesOn, Stands
  <2>3. CASE (PutFirst \/ PutLast \/ TakeFirst \/ TakeLast \/ TakeAll \/ \E t \in Tokens : TakeOut(t)) /\ Still
    <3>1. Shows(list', items')
      BY <2>3, PutShows, TakeShows
    <3>2. walk.current = 0 /\ walk' = walk
      BY <2>3 DEF Still
    <3>3. Stands(walk', items')
      BY <2>1, <3>2 DEF Stands
    <3> QED BY <2>2, <3>1, <3>3 DEF ListIndInv
  <2>4. CASE StartWalk
    BY <2>2, <2>4, StartGoesOn DEF ListIndInv
  <2>5. CASE walk.current # 0 /\ Call(walk.current)
    <3>1. Stands(walk', items')
      BY <2>5, CallGoesOn
    <3>2. CASE UNCHANGED <<list, items>>
      BY <2>1, <2>2, <3>1, <3>2 DEF ListIndInv
    <3>3. CASE TakeOut(walk.current) \/ PutLast
      BY <2>2, <3>1, <3>3, PutShows, TakeShows DEF ListIndInv
    <3> QED BY <2>5, <3>2, <3>3 DEF Call
  <2>6. CASE UNCHANGED listVars
    BY <2>1, <2>2, <2>6 DEF listVars, ListIndInv
  <2> QED BY <2>3, <2>4, <2>5, <2>6 DEF ListNext
<1> QED BY <1>1, <1>2, PTL DEF ListSpec

\* The pointers of the list stand for its sequence in both directions, and a trigger()
\* calls whoever is registered throughout once (DefaultEventListener on LinkedList).
THEOREM ListIsASequenceHolds == ListSpec => []ListIsASequence
<1>1. ListIndInv => ListIsASequence
  <2> SUFFICES ASSUME ListIndInv PROVE ListIsASequence
    OBVIOUS
  <2>1. Shows(list, items) /\ WalkGoesOn
    BY DEF ListIndInv
  <2>2. items \in Seq(Tokens) /\ list.length = Len(items) /\ list.registry = ToSet(items)
    BY <2>1 DEF Shows
  <2>3. Linked(list.first, list.last, list.next, list.previous, items)
    BY <2>1, <2>2, ShowsLinked
  <2>4. Linked(list.last, list.first, list.previous, list.next, Reverse(items))
    BY <2>3, LinkedBackwards
  <2>5. Walk(list.first, list.next) = items
    <3>1. Leads(list.first, list.next, items)
      BY <2>3 DEF Linked, Leads
    <3> QED BY <3>1, WalkLeads
  <2>6. Walk(list.last, list.previous) = Reverse(items)
    <3> DEFINE r == Reverse(items)
    <3> HIDE DEF r
    <3>1. Leads(list.last, list.previous, r)
      BY <2>4 DEF Linked, Leads, r
    <3>2. Walk(list.last, list.previous) = r
      BY <3>1, WalkLeads
    <3> QED BY <3>2 DEF r
  <2> QED BY <2>1, <2>2, <2>5, <2>6 DEF ListIsASequence, WalkGoesOn
<1> QED BY <1>1, ListIndInvHolds, PTL

-----------------------------------------------------------------------------
(***************************************************************************)
(* The scans of the ledger file.  Wherever a file of lines is divided into *)
(* chunks, split() divides a chunk and what is left of the one behind it   *)
(* at the borders of the lines: what is left over next is the beginning of *)
(* a line, and the parts behind it are whole lines.  So the lines found    *)
(* are always those from some line on, and the scan stops where the caller *)
(* asked it to.                                                            *)
(***************************************************************************)
\* One byte more for split().
SplitStep(lines, b) ==
    IF b = 0 THEN Append(lines, <<>>) ELSE [lines EXCEPT ![Len(lines)] = Append(@, b)]

\* split() goes through the bytes one by one.
LEMMA SplitSolves ==
  ASSUME NEW bytes \in Seq(Nat)
  PROVE  \E h : /\ h[0] = << <<>> >>
                /\ \A i \in 1..Len(bytes) : h[i] = SplitStep(h[i - 1], bytes[i])
                /\ Split(bytes) = h[Len(bytes)]
<1> DEFINE n == Len(bytes)
           Iter(g, S) ==
               g = [s \in SUBSET S |-> IF s = {} THEN << <<>> >>
                                       ELSE SplitStep(g[s \ {Max(s)}], bytes[Max(s)])]
           T == {k \in 0..n : \E g : Iter(g, 1..k)}
<1>0. n \in Nat /\ DOMAIN bytes = 1..n
  BY LenProperties
<1> HIDE DEF SplitStep, n
<1>1. ASSUME NEW k \in 1..n, k - 1 \in T
      PROVE  k \in T
  <2>1. PICK g : Iter(g, 1..(k - 1))
    BY <1>1
  <2> DEFINE e == [s \in SUBSET (1..k) |-> IF k \in s THEN SplitStep(g[s \ {k}], bytes[k]) ELSE g[s]]
             V(s) == IF s = {} THEN << <<>> >> ELSE SplitStep(e[s \ {Max(s)}], bytes[Max(s)])
  <2>2. ASSUME NEW s \in SUBSET (1..k)
        PROVE  e[s] = V(s)
    <3>1. CASE k \in s
      <4>1. Max(s) = k
        <5>1. s \in SUBSET Nat /\ \A j \in s : j <= k
          OBVIOUS
        <5> QED BY <3>1, <5>1, GreatestIsMax
      <4>2. e[s \ {k}] = g[s \ {k}]
        OBVIOUS
      <4> QED BY <3>1, <4>1, <4>2
    <3>2. CASE k \notin s
      <4>1. s \in SUBSET (1..(k - 1))
        BY <3>2
      <4>2. g[s] = IF s = {} THEN << <<>> >> ELSE SplitStep(g[s \ {Max(s)}], bytes[Max(s)])
        BY <2>1, <4>1, Zenon
      <4>3. e[s] = g[s] /\ e[s \ {Max(s)}] = g[s \ {Max(s)}]
        BY <3>2
      <4> QED BY <4>2, <4>3
    <3> QED BY <3>1, <3>2
  <2>3. Iter(e, 1..k)
    <3>1. e = [s \in SUBSET (1..k) |-> e[s]]
      OBVIOUS
    <3>2. [s \in SUBSET (1..k) |-> e[s]] = [s \in SUBSET (1..k) |-> V(s)]
      <4> HIDE DEF e, V
      <4> QED BY <2>2
    <3> HIDE DEF e
    <3> QED BY <3>1, <3>2
  <2> HIDE DEF Iter, e
  <2> QED BY <2>3
<1>2. 0 \in T
  <2> DEFINE g == [s \in SUBSET (1..0) |-> << <<>> >>]
  <2>1. 1..0 = {} /\ \A s \in SUBSET (1..0) : s = {}
    OBVIOUS
  <2>2. Iter(g, 1..0)
    BY <2>1
  <2> HIDE DEF Iter, g
  <2> QED BY <1>0, <2>2
<1>3. PICK g : Iter(g, 1..n)
  <2> HIDE DEF T
  <2>1. 0..n \subseteq T
    BY <1>0, <1>1, <1>2, InductionUpTo
  <2>2. n \in T
    BY <1>0, <2>1
  <2> QED BY <2>2 DEF T
<1> DEFINE F == CHOOSE f : Iter(f, 1..n)
<1>4. Iter(F, 1..n)
  <2> HIDE DEF Iter
  <2> QED BY <1>3
<1>5. Split(bytes) = F[1..n]
  BY <1>0 DEF Split, FoldLeft, MapThenFoldSet, SplitStep
<1> DEFINE h == [i \in 0..n |-> F[1..i]]
<1>6. h[0] = << <<>> >>
  <2>1. 1..0 = {} /\ {} \in SUBSET (1..n) /\ 0 \in 0..n
    BY <1>0
  <2>2. F[{}] = << <<>> >>
    BY <1>4, <2>1
  <2> HIDE DEF F
  <2> QED BY <2>1, <2>2
<1>7. ASSUME NEW i \in 1..n
      PROVE  h[i] = SplitStep(h[i - 1], bytes[i])
  <2>1. Max(1..i) = i
    <3>1. 1..i \in SUBSET Nat /\ i \in 1..i /\ \A j \in 1..i : j <= i
      OBVIOUS
    <3> QED BY <3>1, GreatestIsMax
  <2>2. (1..i) \ {i} = 1..(i - 1) /\ 1..i \in SUBSET (1..n) /\ 1..i # {}
    <3>1. i \in 1..i /\ i \in Nat /\ i <= n
      BY <1>0
    <3>2. \A j : j \in (1..i) \ {i} <=> j \in 1..(i - 1)
      BY <3>1
    <3>3. (1..i) \ {i} = 1..(i - 1)
      BY <3>2, Zenon
    <3>4. 1..i \in SUBSET (1..n)
      BY <1>0, <3>1
    <3> QED BY <3>1, <3>3, <3>4
  <2>3. F[1..i] = SplitStep(F[(1..i) \ {Max(1..i)}], bytes[Max(1..i)])
    <3> HIDE DEF F
    <3> QED BY <1>4, <2>2
  <2>4. i \in 0..n /\ i - 1 \in 0..n
    BY <1>0
  <2> HIDE DEF F
  <2> QED BY <2>1, <2>2, <2>3, <2>4
<1>8. h[n] = F[1..n]
  <2> HIDE DEF F
  <2> QED BY <1>0
<1> HIDE DEF h
<1> QED BY <1>5, <1>6, <1>7, <1>8 DEF n

\* What is between two places of the file, and that there is no newline there.
Between(bytes, from, to) == [j \in 1..(to - from - 1) |-> bytes[from + j]]
Clean(bytes, from, to) == \A j \in (from + 1)..(to - 1) : bytes[j] # 0

\* The places of the newlines that divide the first i bytes into the given lines.
Cuts(c, lines, bytes, i) ==
    /\ lines \in Seq(Seq(Nat)) /\ Len(lines) >= 1
    /\ c \in [0..Len(lines) -> Nat] /\ c[0] = 0 /\ c[Len(lines)] = i + 1
    /\ \A k \in 1..Len(lines) :
          /\ c[k - 1] < c[k]
          /\ lines[k] = Between(bytes, c[k - 1], c[k]) /\ Clean(bytes, c[k - 1], c[k])
          /\ k < Len(lines) => bytes[c[k]] = 0

\* One byte more extends what is between.
LEMMA BetweenOneMore ==
  ASSUME NEW bytes \in Seq(Nat), NEW i \in 1..Len(bytes), NEW from \in Nat, from < i
  PROVE  /\ Between(bytes, from, i) \in Seq(Nat)
         /\ Between(bytes, from, i + 1) \in Seq(Nat)
         /\ Append(Between(bytes, from, i), bytes[i]) = Between(bytes, from, i + 1)
<1>0. i \in Nat /\ Len(bytes) \in Nat /\ \A j \in 1..Len(bytes) : bytes[j] \in Nat
  BY LenProperties, ElementOfSeq
<1> DEFINE m == i - from
           s == Between(bytes, from, i)
           t == Between(bytes, from, i + 1)
           u == Append(s, bytes[i])
<1>1. m \in Nat \ {0} /\ from + m = i
  BY <1>0
<1>2. s \in [1..(m - 1) -> Nat] /\ \A j \in 1..(m - 1) : s[j] = bytes[from + j]
  <2>1. s = [j \in 1..(m - 1) |-> bytes[from + j]]
    BY DEF Between
  <2>2. \A j \in 1..(m - 1) : from + j \in 1..Len(bytes)
    BY <1>0
  <2> QED BY <1>0, <2>1, <2>2
<1>3. t \in [1..m -> Nat] /\ \A j \in 1..m : t[j] = bytes[from + j]
  <2>1. t = [j \in 1..m |-> bytes[from + j]]
    <3>1. i + 1 - from - 1 = m
      BY <1>0
    <3> QED BY <3>1 DEF Between
  <2>2. \A j \in 1..m : from + j \in 1..Len(bytes)
    BY <1>0
  <2> QED BY <1>0, <2>1, <2>2
<1> HIDE DEF m, s, t
<1>4. s \in Seq(Nat) /\ Len(s) = m - 1
  <2>1. m - 1 \in Nat
    BY <1>1
  <2> QED BY <1>2, <2>1, SequenceOfLength
<1>5. t \in Seq(Nat) /\ Len(t) = m
  BY <1>1, <1>3, SequenceOfLength
<1>6. u \in Seq(Nat) /\ Len(u) = m /\ u[m] = bytes[i] /\ \A j \in 1..(m - 1) : u[j] = s[j]
  BY <1>0, <1>1, <1>4, AppendProperties
<1> HIDE DEF u
<1>7. \A j \in 1..m : u[j] = t[j]
  <2>1. \A j \in 1..m : j = m \/ j \in 1..(m - 1)
    BY <1>1
  <2> QED BY <1>1, <1>2, <1>3, <1>6, <2>1
<1>8. u = t
  BY <1>5, <1>6, <1>7, SeqEqual
<1> QED BY <1>4, <1>5, <1>8 DEF s, t, u

\* A newline ends a line, any other byte extends the last one.
LEMMA CutsStep ==
  ASSUME NEW bytes \in Seq(Nat), NEW i \in 1..Len(bytes), NEW lines, NEW c, Cuts(c, lines, bytes, i - 1)
  PROVE  \E d : Cuts(d, SplitStep(lines, bytes[i]), bytes, i)
<1> DEFINE n == Len(lines)
           next == SplitStep(lines, bytes[i])
<1>0. n \in Nat \ {0} /\ lines \in Seq(Seq(Nat)) /\ i \in Nat /\ bytes[i] \in Nat
  BY LenProperties, ElementOfSeq DEF Cuts
<1>3. c \in [0..n -> Nat] /\ c[0] = 0 /\ c[n] = i
  BY <1>0 DEF Cuts
<1>4. ASSUME NEW k \in 1..n
      PROVE  /\ c[k - 1] < c[k]
             /\ lines[k] = Between(bytes, c[k - 1], c[k]) /\ Clean(bytes, c[k - 1], c[k])
             /\ k < n => bytes[c[k]] = 0
  BY DEF Cuts
<1> HIDE DEF n
<1>1. CASE bytes[i] = 0
  <2> DEFINE d == [k \in 0..(n + 1) |-> IF k <= n THEN c[k] ELSE i + 1]
  <2>1. next = Append(lines, <<>>)
    BY <1>1 DEF SplitStep
  <2>2. /\ next \in Seq(Seq(Nat)) /\ Len(next) = n + 1 /\ next[n + 1] = <<>>
        /\ \A k \in 1..n : next[k] = lines[k]
    BY <1>0, <2>1, AppendProperties, EmptySeq DEF n
  <2>3. /\ d \in [0..(n + 1) -> Nat] /\ d[0] = 0 /\ d[n + 1] = i + 1 /\ d[n] = i
        /\ \A k \in 1..n : d[k] = c[k] /\ d[k - 1] = c[k - 1]
    BY <1>0, <1>3
  <2> HIDE DEF next, d
  <2>4. ASSUME NEW k \in 1..(n + 1)
        PROVE  /\ d[k - 1] < d[k]
               /\ next[k] = Between(bytes, d[k - 1], d[k]) /\ Clean(bytes, d[k - 1], d[k])
               /\ k < n + 1 => bytes[d[k]] = 0
    <3>1. CASE k = n + 1
      <4>1. d[k - 1] = i /\ d[k] = i + 1
        BY <1>0, <2>3, <3>1
      <4>2. Between(bytes, i, i + 1) = <<>> /\ Clean(bytes, i, i + 1)
        BY <1>0 DEF Between, Clean
      <4>3. i < i + 1 /\ ~(k < n + 1)
        BY <1>0, <3>1
      <4>4. next[k] = <<>>
        BY <2>2, <3>1
      <4> QED BY <4>1, <4>2, <4>3, <4>4
    <3>2. CASE k # n + 1
      <4>1. k \in 1..n
        BY <1>0, <3>2
      <4>2. d[k] = c[k] /\ d[k - 1] = c[k - 1] /\ next[k] = lines[k]
        BY <2>2, <2>3, <4>1
      <4>3. bytes[d[k]] = 0
        <5>1. CASE k < n
          BY <1>4, <4>1, <4>2, <5>1
        <5>2. CASE k = n
          BY <1>1, <1>3, <4>2, <5>2
        <5> QED BY <1>0, <4>1, <5>1, <5>2
      <4> QED BY <1>4, <4>1, <4>2, <4>3
    <3> QED BY <3>1, <3>2
  <2>5. n + 1 >= 1
    BY <1>0
  <2>6. Cuts(d, next, bytes, i)
    BY <2>2, <2>3, <2>4, <2>5 DEF Cuts
  <2> QED BY <2>6 DEF next
<1>2. CASE bytes[i] # 0
  <2> DEFINE d == [c EXCEPT ![n] = i + 1]
             line == Between(bytes, c[n - 1], i + 1)
  <2>1. c[n - 1] \in Nat /\ c[n - 1] < i /\ lines[n] = Between(bytes, c[n - 1], i)
        /\ Clean(bytes, c[n - 1], i)
    <3>1. n \in 1..n /\ n - 1 \in 0..n
      BY <1>0
    <3> QED BY <1>3, <1>4, <3>1
  <2>3. Append(lines[n], bytes[i]) = line /\ line \in Seq(Nat)
    BY <2>1, BetweenOneMore
  <2>4. next = [lines EXCEPT ![n] = line]
    BY <1>2, <2>3 DEF SplitStep, n
  <2> HIDE DEF line
  <2>6. /\ next \in Seq(Seq(Nat)) /\ Len(next) = n /\ next[n] = line
        /\ \A k \in 1..(n - 1) : next[k] = lines[k]
    <3>1. n \in 1..Len(lines) /\ Len(lines) = n
      BY <1>0 DEF n
    <3> QED BY <1>0, <2>3, <2>4, <3>1, ExceptSeq
  <2>7. /\ d \in [0..n -> Nat] /\ d[0] = 0 /\ d[n] = i + 1
        /\ \A k \in 1..n : d[k - 1] = c[k - 1] /\ (k < n => d[k] = c[k])
    BY <1>0, <1>3
  <2> HIDE DEF next, d
  <2>8. ASSUME NEW k \in 1..n
        PROVE  /\ d[k - 1] < d[k]
               /\ next[k] = Between(bytes, d[k - 1], d[k]) /\ Clean(bytes, d[k - 1], d[k])
               /\ k < n => bytes[d[k]] = 0
    <3>1. CASE k = n
      <4>1. d[k - 1] = c[n - 1] /\ d[k] = i + 1
        BY <2>7, <3>1
      <4>2. Clean(bytes, c[n - 1], i + 1)
        BY <1>0, <1>2, <2>1 DEF Clean
      <4> QED BY <1>0, <2>1, <2>6, <3>1, <4>1, <4>2 DEF line
    <3>2. CASE k # n
      <4>1. k \in 1..(n - 1) /\ k < n
        BY <1>0, <3>2
      <4>2. d[k] = c[k] /\ d[k - 1] = c[k - 1] /\ next[k] = lines[k]
        BY <2>6, <2>7, <4>1
      <4> QED BY <1>4, <4>1, <4>2
    <3> QED BY <3>1, <3>2
  <2>9. n >= 1
    BY <1>0
  <2>10. Cuts(d, next, bytes, i)
    BY <2>6, <2>7, <2>8, <2>9 DEF Cuts
  <2> QED BY <2>10 DEF next
<1> QED BY <1>1, <1>2

\* split() divides at the newlines.
LEMMA SplitCuts ==
  ASSUME NEW bytes \in Seq(Nat)
  PROVE  \E c : Cuts(c, Split(bytes), bytes, Len(bytes))
<1> DEFINE n == Len(bytes)
<1>1. PICK h : /\ h[0] = << <<>> >>
               /\ \A i \in 1..n : h[i] = SplitStep(h[i - 1], bytes[i])
               /\ Split(bytes) = h[n]
  BY SplitSolves
<1> DEFINE T == {i \in 0..n : \E c : Cuts(c, h[i], bytes, i)}
<1>0. n \in Nat
  BY LenProperties
<1>2. 0 \in T
  <2> DEFINE c == [k \in 0..1 |-> k]
  <2>1. /\ h[0] \in Seq(Seq(Nat)) /\ Len(h[0]) = 1 /\ h[0][1] = <<>>
    BY <1>1
  <2>2. c \in [0..1 -> Nat] /\ c[0] = 0 /\ c[1] = 1
    OBVIOUS
  <2>3. Between(bytes, 0, 1) = <<>> /\ Clean(bytes, 0, 1)
    BY DEF Between, Clean
  <2> HIDE DEF c
  <2>4. Cuts(c, h[0], bytes, 0)
    BY <2>1, <2>2, <2>3 DEF Cuts
  <2> QED BY <1>0, <2>4
<1>3. ASSUME NEW i \in 1..n, i - 1 \in T PROVE i \in T
  <2>1. PICK c : Cuts(c, h[i - 1], bytes, i - 1)
    BY <1>3
  <2>2. \E d : Cuts(d, SplitStep(h[i - 1], bytes[i]), bytes, i)
    BY <2>1, CutsStep
  <2> QED BY <1>0, <1>1, <2>2
<1> HIDE DEF T
<1>4. 0..n \subseteq T
  BY <1>0, <1>2, <1>3, InductionUpTo
<1>5. n \in T
  BY <1>0, <1>4
<1> QED BY <1>1, <1>5 DEF T

\* The borders of the lines of the file: the n-th is what lies between o[n - 1]
\* and o[n].  Only one behind the last newline is empty.
Borders(o, k) ==
    /\ ledger.lines \in Nat /\ ledger.bytes \in Seq(Nat) /\ k \in Nat \ {0}
    /\ k \in {ledger.lines, ledger.lines + 1} /\ (ledger.torn => k = ledger.lines)
    /\ o \in [0..k -> Nat] /\ o[0] = 0 /\ o[k] = Len(ledger.bytes) + 1
    /\ \A n \in 1..k :
          /\ o[n - 1] < o[n] /\ (n < k => ledger.bytes[o[n]] = 0)
          /\ \A i \in (o[n - 1] + 1)..(o[n] - 1) : ledger.bytes[i] = n
          /\ o[n] = o[n - 1] + 1 <=> n = ledger.lines + 1

\* The n-th line from a place on, and the whole line.
PartOf(o, n, from) == [i \in 1..(o[n] - from - 1) |-> n]
LineOf(o, n) == PartOf(o, n, o[n - 1])

\* The borders grow.
LEMMA BordersGrow ==
  ASSUME NEW o, NEW k, Borders(o, k), NEW i \in 0..k, NEW j \in 0..k, i < j
  PROVE  o[i] < o[j]
<1> DEFINE T == {x \in 0..(k - i) : x = 0 \/ o[i] < o[i + x]}
<1>0. k \in Nat /\ \A n \in 0..k : o[n] \in Nat
  BY DEF Borders
<1>1. ASSUME NEW x \in 1..(k - i), x - 1 \in T PROVE x \in T
  <2>1. i + x \in 1..k /\ i + x - 1 = i + (x - 1) /\ i + x - 1 \in 0..k
    BY <1>0
  <2>2. o[i + x - 1] < o[i + x]
    BY <2>1 DEF Borders
  <2>3. x - 1 = 0 \/ o[i] < o[i + x - 1]
    BY <1>1, <2>1
  <2>4. x - 1 = 0 => o[i + x - 1] = o[i]
    BY <2>1
  <2> QED BY <1>0, <2>1, <2>2, <2>3, <2>4
<1>2. 0 \in T /\ k - i \in Nat
  BY <1>0
<1> HIDE DEF T
<1>3. 0..(k - i) \subseteq T
  BY <1>1, <1>2, InductionUpTo
<1>4. j - i \in 0..(k - i) /\ j - i # 0 /\ i + (j - i) = j
  BY <1>0
<1> QED BY <1>3, <1>4 DEF T

\* A newline of the file is one of the borders.
LEMMA NewlineIsBorder ==
  ASSUME NEW o, NEW k, Borders(o, k), NEW p \in 1..Len(ledger.bytes), ledger.bytes[p] = 0
  PROVE  \E n \in 1..(k - 1) : o[n] = p
<1>0. k \in Nat \ {0} /\ (\A n \in 0..k : o[n] \in Nat) /\ o[0] = 0 /\ Len(ledger.bytes) \in Nat
      /\ o[k] = Len(ledger.bytes) + 1
  BY LenProperties DEF Borders
<1> DEFINE S == {n \in 0..k : p <= o[n]}
<1>1. PICK n \in S : \A x \in S : n <= x
  <2>1. S \in SUBSET Nat /\ k \in S
    BY <1>0
  <2> QED BY <2>1, LeastNumber
<1>2. n \in 1..k /\ p <= o[n] /\ n - 1 \in 0..k
  BY <1>0
<1>3. o[n - 1] < p
  BY <1>0, <1>1, <1>2
<1>4. p = o[n]
  <2> SUFFICES ASSUME p # o[n] PROVE FALSE
    OBVIOUS
  <2>1. p \in (o[n - 1] + 1)..(o[n] - 1)
    BY <1>0, <1>2, <1>3
  <2>2. ledger.bytes[p] = n
    BY <1>2, <2>1 DEF Borders
  <2> QED BY <1>2, <2>2
<1> QED BY <1>0, <1>2, <1>4

\* J is what the file has from p on to the end of its m-th line.
IsRest(o, m, p, J) ==
    /\ J \in Seq(Nat) /\ Len(J) = o[m] - 1 - p
    /\ \A i \in 1..Len(J) : J[i] = ledger.bytes[p + i]

\* Places in the rest and in the file.
LEMMA Shifted ==
  ASSUME NEW p \in Nat, NEW at \in Nat, NEW next \in Nat, NEW end \in Nat, NEW len \in Nat,
         p + at < next, next <= end, len = end - 1 - p
  PROVE  at <= len /\ p + at < end
OBVIOUS

\* It is divided at the borders of the file.
LEMMA RestIsCutAtBorders ==
  ASSUME NEW o, NEW k, Borders(o, k), NEW m \in 1..k, NEW p \in Nat, p < o[m],
         NEW J, IsRest(o, m, p, J), NEW c, NEW s, Cuts(c, s, J, Len(J))
  PROVE  /\ Len(s) \in 1..m
         /\ o[m - Len(s)] <= p
         /\ \A x \in 1..Len(s) : c[x] + p = o[m - Len(s) + x]
<1> DEFINE n == Len(s)
           T == {i \in 0..(n - 1) : i < m /\ c[n - i] + p = o[m - i]}
<1>0. /\ k \in Nat \ {0} /\ (\A x \in 0..k : o[x] \in Nat) /\ o[0] = 0 /\ Len(ledger.bytes) \in Nat
      /\ o[k] = Len(ledger.bytes) + 1
  BY LenProperties DEF Borders
<1>1. n \in Nat \ {0} /\ (\A x \in 0..n : c[x] \in Nat) /\ c[0] = 0 /\ c[n] = Len(J) + 1
  BY LenProperties DEF Cuts
<1>2. ASSUME NEW x \in 1..n
      PROVE  /\ c[x - 1] < c[x] /\ (x < n => J[c[x]] = 0)
             /\ \A j \in (c[x - 1] + 1)..(c[x] - 1) : J[j] # 0
  BY DEF Cuts, Clean
<1>3. J \in Seq(Nat) /\ Len(J) \in Nat /\ Len(J) = o[m] - 1 - p /\ \A i \in 1..Len(J) : J[i] = ledger.bytes[p + i]
  BY LenProperties DEF IsRest
<1>4. ASSUME NEW x \in 1..(k - 1) PROVE ledger.bytes[o[x]] = 0
  <2>1. x \in 1..k /\ x < k
    BY <1>0
  <2> QED BY <2>1 DEF Borders
<1>5. \A x, y \in 0..k : x < y => o[x] < o[y]
  BY BordersGrow
<1> HIDE DEF n
<1>6. 0 \in T
  <2>1. 0 \in 0..(n - 1) /\ 0 < m /\ n - 0 = n /\ m - 0 = m /\ o[m] \in Nat
    BY <1>0, <1>1
  <2>2. c[n] + p = o[m]
    BY <1>1, <1>3, <2>1
  <2> QED BY <2>1, <2>2
<1>7. ASSUME NEW i \in 1..(n - 1), i - 1 \in T PROVE i \in T
  <2> DEFINE x == n - i
             y == m - (i - 1)
  <2>1. x \in 1..(n - 1) /\ x + 1 \in 1..n /\ x + 1 - 1 = x /\ x < n /\ n - (i - 1) = x + 1
    BY <1>1
  <2>2. y \in 1..m /\ y <= k /\ c[x + 1] + p = o[y]
    BY <1>0, <1>7, <2>1
  <2> HIDE DEF x, y
  <2>3. c[x] \in Nat \ {0} /\ c[x] < c[x + 1] /\ J[c[x]] = 0 /\ c[x + 1] \in Nat
    <3>1. x \in 1..n /\ x - 1 \in 0..n /\ x \in 0..n /\ x + 1 \in 0..n
      BY <1>1, <2>1
    <3>2. c[x - 1] \in Nat /\ c[x] \in Nat /\ c[x + 1] \in Nat /\ c[x - 1] < c[x]
      BY <1>1, <1>2, <3>1
    <3> QED BY <1>2, <2>1, <3>1, <3>2
  <2>4. o[y] <= o[m] /\ o[m] <= o[k] /\ o[y] \in Nat /\ o[m] \in Nat
    <3>1. y \in 0..k /\ m \in 0..k /\ k \in 0..k /\ (y = m \/ y < m) /\ (m = k \/ m < k)
      BY <1>0, <2>2
    <3>2. o[y] \in Nat /\ o[m] \in Nat /\ o[k] \in Nat
      BY <1>0, <3>1
    <3>3. y = m \/ o[y] < o[m]
      BY <1>5, <3>1
    <3>4. m = k \/ o[m] < o[k]
      BY <1>5, <3>1
    <3> QED BY <3>2, <3>3, <3>4
  <2>5. c[x] \in 1..Len(J) /\ c[x] + p = p + c[x] /\ c[x] + p \in 1..Len(ledger.bytes)
    <3>1. p + c[x] < o[y]
      BY <2>2, <2>3, <2>4
    <3>2. c[x] <= Len(J) /\ p + c[x] < o[m]
      BY <1>3, <2>3, <2>4, <3>1, Shifted
    <3>3. o[m] <= Len(ledger.bytes) + 1 /\ Len(ledger.bytes) \in Nat
      BY <1>0, <2>4
    <3>4. c[x] \in 1..Len(J)
      BY <1>3, <2>3, <3>2
    <3>5. c[x] + p = p + c[x]
      BY <2>3
    <3>6. p + c[x] \in Nat /\ p + c[x] >= 1 /\ p + c[x] <= Len(ledger.bytes)
      <4>1. o[m] \in Nat /\ c[x] \in Nat \ {0}
        BY <2>3, <2>4
      <4> QED BY <3>2, <3>3, <4>1
    <3> QED BY <1>0, <3>4, <3>5, <3>6
  <2>6. ledger.bytes[c[x] + p] = 0
    BY <1>3, <2>3, <2>5
  <2>7. PICK q \in 1..(k - 1) : o[q] = c[x] + p
    BY <2>5, <2>6, NewlineIsBorder
  <2>8. q < y
    <3> SUFFICES ASSUME y <= q PROVE FALSE
      BY <1>0, <2>2
    <3>1. y \in 0..k /\ q \in 0..k /\ (y = q \/ y < q)
      BY <1>0, <2>2
    <3>2. y = q \/ o[y] < o[q]
      BY <1>5, <3>1
    <3> QED BY <2>2, <2>3, <2>4, <2>7, <3>2
  <2>9. q = y - 1
    <3> SUFFICES ASSUME q < y - 1 PROVE FALSE
      BY <1>0, <2>2, <2>8
    <3>1. y - 1 \in 1..(k - 1) /\ y - 1 \in 0..k /\ q \in 0..k /\ y \in 0..k
      BY <1>0, <2>2
    <3>2. o[q] < o[y - 1] /\ o[y - 1] < o[y] /\ o[y - 1] \in Nat
      BY <1>0, <1>5, <3>1
    <3> DEFINE j == o[y - 1] - p
    <3>3. j \in (c[x] + 1)..(c[x + 1] - 1) /\ p + j = o[y - 1]
      <4>1. c[x] + p < o[y - 1] /\ o[y - 1] < c[x + 1] + p
        BY <2>2, <2>7, <3>2
      <4>2. o[y - 1] - p \in Nat /\ p + (o[y - 1] - p) = o[y - 1]
        BY <2>3, <3>2, <4>1
      <4>3. c[x] + 1 <= o[y - 1] - p
        BY <2>3, <3>2, <4>1
      <4>4. o[y - 1] - p <= c[x + 1] - 1
        BY <2>3, <3>2, <4>1
      <4> QED BY <2>3, <4>2, <4>3, <4>4
    <3>4. j \in 1..Len(J)
      <4>1. j \in Nat \ {0}
        BY <2>3, <3>3
      <4>2. p + j < o[y]
        BY <3>2, <3>3
      <4> HIDE DEF j
      <4>3. j <= Len(J)
        BY <1>3, <2>4, <4>1, <4>2, Shifted
      <4> QED BY <1>3, <4>1, <4>3
    <3>5. J[j] = 0
      BY <1>3, <1>4, <3>1, <3>3, <3>4
    <3> HIDE DEF j
    <3> QED BY <1>2, <2>1, <3>3, <3>5
  <2> QED BY <1>0, <1>1, <2>1, <2>2, <2>7, <2>9 DEF x, y
<1> HIDE DEF T
<1>8. 0..(n - 1) \subseteq T
  <2>1. n - 1 \in Nat
    BY <1>1
  <2> QED BY <1>6, <1>7, <2>1, InductionUpTo
<1>9. n \in 1..m
  <2>1. n - 1 \in T
    BY <1>1, <1>8
  <2> QED BY <1>1, <2>1 DEF T
<1>10. ASSUME NEW x \in 1..n PROVE c[x] + p = o[m - n + x]
  <2>1. n - x \in T
    BY <1>1, <1>8
  <2>2. n - (n - x) = x /\ m - (n - x) = m - n + x
    BY <1>1
  <2> QED BY <2>1, <2>2 DEF T
<1>11. o[m - n] <= p
  <2> SUFFICES ASSUME p < o[m - n] PROVE FALSE
    BY <1>0, <1>9
  <2> DEFINE j == o[m - n] - p
  <2>1. m - n \in 0..k /\ m - n # 0 /\ m - n \in 1..(k - 1) /\ m - n + 1 \in 0..k /\ m - n < m - n + 1
    BY <1>0, <1>9
  <2>2. o[m - n] < o[m - n + 1] /\ o[m - n] \in Nat /\ o[m - n] < o[m]
    BY <1>0, <1>5, <1>9, <2>1
  <2>3. c[1] + p = o[m - n + 1] /\ c[1] \in Nat /\ 1 \in 1..n
    BY <1>1, <1>10
  <2>4. j \in (c[0] + 1)..(c[1] - 1) /\ p + j = o[m - n]
    <3>1. c[0] + p < o[m - n] /\ o[m - n] < c[1] + p /\ c[0] \in Nat
      BY <1>1, <2>2, <2>3
    <3>2. o[m - n] - p \in Nat /\ p + (o[m - n] - p) = o[m - n]
      BY <2>2, <3>1
    <3>3. c[0] + 1 <= o[m - n] - p
      BY <2>2, <3>1
    <3>4. o[m - n] - p <= c[1] - 1
      BY <2>2, <2>3, <3>1
    <3> QED BY <2>3, <3>1, <3>2, <3>3, <3>4
  <2>5. j \in 1..Len(J)
    <3>1. o[m] \in Nat
      BY <1>0
    <3> QED BY <1>3, <2>2, <3>1
  <2>6. J[j] = 0
    BY <1>3, <1>4, <2>1, <2>4, <2>5
  <2> HIDE DEF j
  <2>7. c[1 - 1] = c[0]
    OBVIOUS
  <2> QED BY <1>2, <2>3, <2>4, <2>6, <2>7
<1> QED BY <1>9, <1>10, <1>11 DEF n

\* Its parts: the rest of the r-th line, and whole lines from there to the m-th.
Parted(o, m, p, s, r) ==
    /\ s \in Seq(Seq(Nat)) /\ r \in 1..m /\ Len(s) = m - r + 1
    /\ o[r - 1] <= p /\ p < o[r]
    /\ s[1] = PartOf(o, r, p)
    /\ \A x \in 2..Len(s) : s[x] = LineOf(o, r + x - 1)

\* split() divides the rest of the file into those parts.
LEMMA SplitParts ==
  ASSUME NEW o, NEW k, Borders(o, k), NEW m \in 1..k, NEW p \in Nat, p < o[m],
         NEW J, IsRest(o, m, p, J)
  PROVE  \E r : Parted(o, m, p, Split(J), r)
<1> DEFINE s == Split(J)
           n == Len(s)
           r == m - n + 1
<1>1. J \in Seq(Nat) /\ Len(J) \in Nat /\ \A i \in 1..Len(J) : J[i] = ledger.bytes[p + i]
  BY LenProperties DEF IsRest
<1>2. PICK c : Cuts(c, s, J, Len(J))
  BY <1>1, SplitCuts
<1>3. n \in 1..m /\ o[m - n] <= p /\ \A x \in 1..n : c[x] + p = o[m - n + x]
  BY <1>2, RestIsCutAtBorders
<1>4. /\ s \in Seq(Seq(Nat)) /\ n \in Nat /\ c[0] = 0 /\ c[n] = Len(J) + 1
      /\ \A x \in 0..n : c[x] \in Nat
  BY <1>2, LenProperties DEF Cuts
<1>5. ASSUME NEW x \in 1..n
      PROVE  c[x - 1] < c[x] /\ s[x] = Between(J, c[x - 1], c[x])
  BY <1>2 DEF Cuts
<1>6. k \in Nat /\ \A x \in 0..k : o[x] \in Nat
  BY DEF Borders
<1> HIDE DEF s, n
<1>7. r \in 1..m /\ r - 1 = m - n /\ n = m - r + 1 /\ 1 \in 1..n /\ m - n + 1 = r
  BY <1>3, <1>6
\* A part that lies in the line q.
<1>8. ASSUME NEW q \in 1..k, NEW x \in 1..n, NEW from \in Nat,
             from = p + c[x - 1], o[q] = p + c[x], o[q - 1] <= from
      PROVE  s[x] = PartOf(o, q, from)
  <2>1. c[x - 1] \in Nat /\ c[x] \in Nat /\ c[x - 1] < c[x] /\ c[x] <= Len(J) + 1
    <3>1. x - 1 \in 0..n /\ x \in 0..n
      BY <1>4
    <3>2. c[x] <= Len(J) + 1
      <4>1. c[x] + p = o[m - n + x] /\ c[n] + p = o[m - n + n]
        <5>1. n \in 1..n
          BY <1>3, <1>4
        <5> QED BY <1>3, <5>1
      <4>2. x = n \/ o[m - n + x] < o[m]
        <5>1. m - n + x \in 0..k /\ m \in 0..k /\ (x = n \/ m - n + x < m)
          BY <1>3, <1>4, <1>6
        <5> QED BY <5>1, BordersGrow
      <4>3. m - n + n = m /\ o[m] \in Nat
        BY <1>3, <1>4, <1>6
      <4>4. c[x] \in Nat /\ c[n] \in Nat
        BY <1>4, <3>1
      <4> QED BY <1>1, <1>4, <4>1, <4>2, <4>3, <4>4
    <3> QED BY <1>4, <1>5, <3>1, <3>2
  <2> DEFINE len == c[x] - c[x - 1] - 1
  <2>2. len \in Nat /\ o[q] - from - 1 = len
    BY <1>8, <2>1
  <2>3. ASSUME NEW j \in 1..len
        PROVE  J[c[x - 1] + j] = q
    <3>0. j \in Nat \ {0} /\ j < c[x] - c[x - 1] /\ c[x - 1] \in Nat /\ c[x] \in Nat
      BY <2>1, <2>2
    <3> HIDE DEF len
    <3>1. c[x - 1] + j \in 1..Len(J) /\ p + (c[x - 1] + j) = from + j
      <4>1. c[x - 1] + j < c[x] /\ c[x - 1] + j >= 1
        BY <3>0
      <4>2. c[x - 1] + j <= Len(J)
        BY <1>1, <2>1, <3>0, <4>1
      <4>3. c[x - 1] + j \in 1..Len(J)
        BY <1>1, <3>0, <4>1, <4>2
      <4>4. p + (c[x - 1] + j) = from + j
        BY <1>8, <3>0
      <4> QED BY <4>3, <4>4
    <3>2. o[q - 1] \in Nat /\ o[q] \in Nat
      BY <1>6
    <3>3. from + j \in (o[q - 1] + 1)..(o[q] - 1)
      <4>1. from + j < o[q]
        BY <1>8, <3>0
      <4> QED BY <1>8, <3>0, <3>2, <4>1
    <3>4. ledger.bytes[from + j] = q
      BY <3>3 DEF Borders
    <3> QED BY <1>1, <3>1, <3>4
  <2>4. Between(J, c[x - 1], c[x]) = [j \in 1..len |-> J[c[x - 1] + j]]
    BY DEF Between
  <2>5. PartOf(o, q, from) = [j \in 1..len |-> q]
    BY <2>2 DEF PartOf
  <2> HIDE DEF len
  <2> QED BY <1>5, <2>3, <2>4, <2>5
<1>9. p < o[r] /\ s[1] = PartOf(o, r, p)
  <2>1. o[r] = p + c[1] /\ c[1] \in Nat \ {0} /\ o[r - 1] <= p
    <3>1. c[1] \in Nat /\ c[1] + p = o[r]
      BY <1>3, <1>4, <1>7
    <3>2. c[1 - 1] < c[1] /\ c[1 - 1] = 0
      BY <1>4, <1>5, <1>7
    <3>3. o[r - 1] = o[m - n]
      BY <1>7
    <3> QED BY <1>3, <3>1, <3>2, <3>3
  <2>2. r \in 1..k /\ p = p + c[1 - 1]
    BY <1>4, <1>6, <1>7
  <2>3. s[1] = PartOf(o, r, p)
    BY <1>7, <1>8, <2>1, <2>2
  <2> QED BY <2>1, <2>3
<1>10. ASSUME NEW x \in 2..n PROVE s[x] = LineOf(o, r + x - 1)
  <2> DEFINE q == r + x - 1
  <2>1. q \in 1..k /\ x \in 1..n /\ x - 1 \in 1..n /\ m - n + x = q /\ m - n + (x - 1) = q - 1
    BY <1>3, <1>4, <1>6
  <2>2. o[q] = p + c[x] /\ o[q - 1] = p + c[x - 1] /\ o[q - 1] \in Nat
    <3>1. c[x] + p = o[q] /\ c[x - 1] + p = o[q - 1]
      BY <1>3, <2>1
    <3>2. c[x] \in Nat /\ c[x - 1] \in Nat
      BY <1>4, <2>1
    <3>3. o[q - 1] \in Nat
      BY <1>6, <2>1
    <3> QED BY <3>1, <3>2, <3>3
  <2> HIDE DEF q
  <2>3. s[x] = PartOf(o, q, o[q - 1])
    <3>1. o[q - 1] <= o[q - 1]
      BY <2>2
    <3> QED BY <1>8, <2>1, <2>2, <3>1
  <2> QED BY <2>3 DEF LineOf, q
<1>11. o[r - 1] <= p
  BY <1>3, <1>7
<1> HIDE DEF r
<1> QED BY <1>4, <1>7, <1>9, <1>10, <1>11 DEF Parted, n, s

\* The bytes of the first n lines, each with its newline, end at these places.
Lined(o, bytes, n) ==
    /\ bytes \in Seq(Nat) /\ o \in [0..n -> Nat] /\ o[0] = 0 /\ o[n] = Len(bytes)
    /\ \A x \in 1..n :
          /\ o[x - 1] + 2 <= o[x] /\ o[x] <= Len(bytes) /\ bytes[o[x]] = 0
          /\ \A i \in (o[x - 1] + 1)..(o[x] - 1) : bytes[i] = x

\* A line of the given width and its newline.
Row(n, width) == [i \in 1..(width + 1) |-> IF i <= width THEN n ELSE 0]

\* One more line behind the others.
LEMMA LinedStep ==
  ASSUME NEW n \in Nat \ {0}, NEW width \in Nat \ {0}, NEW o, NEW bytes, Lined(o, bytes, n - 1)
  PROVE  \E d : Lined(d, bytes \o Row(n, width), n)
<1> DEFINE len == Len(bytes)
           row == Row(n, width)
           longer == bytes \o row
           d == [x \in 0..n |-> IF x < n THEN o[x] ELSE len + width + 1]
<1>1. bytes \in Seq(Nat) /\ len \in Nat /\ o \in [0..(n - 1) -> Nat] /\ o[0] = 0 /\ o[n - 1] = len
  BY LenProperties DEF Lined
<1>2. row \in Seq(Nat) /\ Len(row) = width + 1 /\ \A i \in 1..(width + 1) : row[i] = IF i <= width THEN n ELSE 0
  <2>1. row \in [1..(width + 1) -> Nat]
    BY DEF Row
  <2>2. width + 1 \in Nat
    OBVIOUS
  <2> QED BY <2>1, <2>2, SequenceOfLength DEF Row
<1> HIDE DEF len, row
<1>3. /\ longer \in Seq(Nat) /\ Len(longer) = len + width + 1
      /\ \A i \in 1..len : longer[i] = bytes[i]
      /\ \A i \in 1..(width + 1) : longer[len + i] = row[i]
  <2>1. /\ longer \in Seq(Nat) /\ Len(longer) = Len(bytes) + Len(row)
        /\ \A i \in 1..(Len(bytes) + Len(row)) :
              longer[i] = IF i <= Len(bytes) THEN bytes[i] ELSE row[i - Len(bytes)]
    BY <1>1, <1>2, ConcatProperties
  <2>2. Len(bytes) = len /\ Len(row) = width + 1
    BY <1>2 DEF len
  <2>3. ASSUME NEW i \in 1..(width + 1) PROVE longer[len + i] = row[i]
    <3>1. len + i \in 1..(len + (width + 1)) /\ ~(len + i <= len) /\ len + i - len = i
      BY <1>1
    <3> QED BY <2>1, <2>2, <3>1
  <2>4. ASSUME NEW i \in 1..len PROVE longer[i] = bytes[i]
    <3>1. i \in 1..(len + (width + 1)) /\ i <= len
      BY <1>1
    <3> QED BY <2>1, <2>2, <3>1
  <2>5. len + (width + 1) = len + width + 1
    BY <1>1
  <2> QED BY <2>1, <2>2, <2>3, <2>4, <2>5
<1>4. /\ d \in [0..n -> Nat] /\ d[0] = 0 /\ d[n] = len + width + 1
      /\ \A x \in 1..n : d[x - 1] = o[x - 1] /\ (x < n => d[x] = o[x])
  BY <1>1
<1> HIDE DEF longer, d
<1>5. ASSUME NEW x \in 1..n
      PROVE  /\ d[x - 1] + 2 <= d[x] /\ d[x] <= Len(longer) /\ longer[d[x]] = 0
             /\ \A i \in (d[x - 1] + 1)..(d[x] - 1) : longer[i] = x
  <2>1. CASE x = n
    <3>1. d[x - 1] = len /\ d[x] = len + width + 1
      BY <1>1, <1>4, <2>1
    <3>2. longer[len + width + 1] = 0
      <4>1. width + 1 \in 1..(width + 1) /\ len + (width + 1) = len + width + 1 /\ ~(width + 1 <= width)
        BY <1>1
      <4> QED BY <1>2, <1>3, <4>1
    <3>3. ASSUME NEW i \in (len + 1)..(len + width) PROVE longer[i] = n
      <4>1. i - len \in 1..(width + 1) /\ i - len <= width /\ len + (i - len) = i
        BY <1>1
      <4> QED BY <1>2, <1>3, <4>1
    <3>4. len + 2 <= len + width + 1 /\ len + width + 1 - 1 = len + width
      BY <1>1
    <3> QED BY <1>1, <1>3, <2>1, <3>1, <3>2, <3>3, <3>4
  <2>2. CASE x # n
    <3>1. x \in 1..(n - 1) /\ x < n
      BY <2>2
    <3>2. /\ o[x - 1] + 2 <= o[x] /\ o[x] <= len /\ bytes[o[x]] = 0
          /\ \A i \in (o[x - 1] + 1)..(o[x] - 1) : bytes[i] = x
      BY <3>1 DEF Lined, len
    <3>3. o[x] \in Nat /\ o[x - 1] \in Nat
      BY <1>1, <3>1
    <3>4. o[x] \in 1..len /\ \A i \in (o[x - 1] + 1)..(o[x] - 1) : i \in 1..len
      BY <1>1, <3>2, <3>3
    <3>5. d[x] = o[x] /\ d[x - 1] = o[x - 1]
      BY <1>4, <3>1
    <3>6. longer[o[x]] = 0 /\ \A i \in (o[x - 1] + 1)..(o[x] - 1) : longer[i] = x
      BY <1>3, <3>2, <3>4
    <3>7. o[x] <= Len(longer)
      <4>1. Len(longer) \in Nat /\ len <= Len(longer)
        BY <1>1, <1>3
      <4> QED BY <1>1, <3>2, <3>3, <4>1
    <3> QED BY <3>2, <3>5, <3>6, <3>7
  <2> QED BY <2>1, <2>2
<1>6. Lined(d, longer, n)
  BY <1>3, <1>4, <1>5 DEF Lined
<1> QED BY <1>6 DEF longer, row

\* A file written whole.
LEMMA BytesLined ==
  ASSUME NEW n \in Nat, NEW widths \in [1..n -> Nat \ {0}]
  PROVE  \E o : Lined(o, Bytes(widths), n)
<1> DEFINE a == [x \in 1..n |-> Row(x, widths[x])]
<1>1. Bytes(widths) = FlattenSeq(a)
  <2>1. widths \in Seq(Nat \ {0}) /\ Len(widths) = n
    BY SequenceOfLength
  <2> QED BY <2>1 DEF Bytes, Row
<1>2. a \in [1..n -> Seq(Nat)]
  <2>1. ASSUME NEW x \in 1..n PROVE Row(x, widths[x]) \in Seq(Nat)
    <3>1. Row(x, widths[x]) \in [1..(widths[x] + 1) -> Nat] /\ widths[x] + 1 \in Nat
      BY DEF Row
    <3> QED BY <3>1, SequenceOfLength
  <2> QED BY <2>1
<1> HIDE DEF a
<1> DEFINE z == [x \in 0..0 |-> 0]
<1>3. Lined(z, <<>>, 0)
  BY EmptySeq DEF Lined
<1> HIDE DEF z
<1>4. CASE n = 0
  <2>1. Len(a) = 0 /\ a \in Seq(Seq(Nat))
    BY <1>2, <1>4, SequenceOfLength
  <2>2. FlattenSeq(a) = <<>>
    BY <2>1, EmptySeq DEF FlattenSeq
  <2> QED BY <1>1, <1>3, <1>4, <2>2
<1>5. CASE n # 0
  <2>1. PICK f : Joins(f, a, n, Nat) /\ FlattenSeq(a) = f[n]
    <3>1. n \in Nat \ {0}
      BY <1>5
    <3> QED BY <1>2, <3>1, FlattenSolves
  <2>2. ASSUME NEW x \in 1..n
        PROVE  f[x] = IF x = 1 THEN Row(1, widths[1]) ELSE f[x - 1] \o Row(x, widths[x])
    BY <2>1 DEF Joins, a
  <2> DEFINE T == {0} \cup {x \in 1..n : \E o : Lined(o, f[x], x)}
  <2>3. ASSUME NEW x \in 1..n, x - 1 \in T PROVE x \in T
    <3>0. x \in Nat \ {0} /\ widths[x] \in Nat \ {0}
      OBVIOUS
    <3>1. CASE x = 1
      <4>1. \E d : Lined(d, <<>> \o Row(x, widths[x]), x)
        <5>1. Lined(z, <<>>, x - 1)
          BY <1>3, <3>1
        <5> QED BY <3>0, <5>1, LinedStep
      <4>2. <<>> \o Row(x, widths[x]) = f[x]
        <5>1. Row(x, widths[x]) \in Seq(Nat)
          BY <1>2 DEF a
        <5> QED BY <2>2, <3>1, <5>1, ConcatEmptySeq
      <4> QED BY <4>1, <4>2
    <3>2. CASE x # 1
      <4>1. PICK o : Lined(o, f[x - 1], x - 1)
        <5>1. x - 1 # 0
          BY <3>2
        <5> QED BY <2>3, <5>1
      <4>2. \E d : Lined(d, f[x - 1] \o Row(x, widths[x]), x)
        BY <3>0, <4>1, LinedStep
      <4> QED BY <2>2, <3>2, <4>2
    <3> QED BY <3>1, <3>2
  <2>4. 0 \in T
    OBVIOUS
  <2> HIDE DEF T
  <2>5. 0..n \subseteq T
    BY <2>3, <2>4, InductionUpTo
  <2>6. n \in T /\ n # 0
    BY <1>5, <2>5
  <2> QED BY <1>1, <2>1, <2>6 DEF T
<1> QED BY <1>4, <1>5

\* The number of the last line that the scan for newer lines can tell.
Visible == IF ledger.torn /\ ledger.number = "none" THEN ledger.lines - 1 ELSE ledger.lines

\* Every file that a scan starts on has borders.
LEMMA FileHasBorders ==
  ASSUME NEW n \in Nat, NEW widths \in [1..n -> Nat \ {0}], NEW mark, mark # "newline" => n # 0,
         ledger.lines = n, ledger.torn => mark # "newline",
         ledger.bytes = IF mark = "newline" THEN Bytes(widths) ELSE Front(Bytes(widths))
  PROVE  \E o, k : Borders(o, k)
<1> DEFINE bytes == Bytes(widths)
           len == Len(bytes)
<1>1. PICK o : Lined(o, bytes, n)
  BY BytesLined
<1>2. /\ bytes \in Seq(Nat) /\ len \in Nat /\ o \in [0..n -> Nat] /\ o[0] = 0 /\ o[n] = len
      /\ \A x \in 1..n :
            /\ o[x - 1] + 2 <= o[x] /\ o[x] <= len /\ bytes[o[x]] = 0
            /\ \A i \in (o[x - 1] + 1)..(o[x] - 1) : bytes[i] = x
  BY <1>1, LenProperties DEF Lined
<1> HIDE DEF bytes, len
<1>3. ASSUME NEW x \in 1..n
      PROVE  o[x - 1] \in Nat /\ o[x] \in Nat /\ o[x - 1] < o[x] /\ o[x] # o[x - 1] + 1 /\ x # n + 1
  <2>1. o[x - 1] \in Nat /\ o[x] \in Nat
    <3>1. x - 1 \in 0..n /\ x \in 0..n
      OBVIOUS
    <3> QED BY <1>2, <3>1
  <2>2. o[x - 1] + 2 <= o[x]
    BY <1>2
  <2> QED BY <2>1, <2>2
<1>4. CASE mark = "newline"
  <2> DEFINE d == [x \in 0..(n + 1) |-> IF x <= n THEN o[x] ELSE len + 1]
  <2>1. /\ d \in [0..(n + 1) -> Nat] /\ d[0] = 0 /\ d[n + 1] = len + 1 /\ d[n] = len
        /\ \A x \in 1..n : d[x] = o[x] /\ d[x - 1] = o[x - 1]
    BY <1>2
  <2> HIDE DEF d
  <2>2. ASSUME NEW x \in 1..(n + 1)
        PROVE  /\ d[x - 1] < d[x] /\ (x < n + 1 => bytes[d[x]] = 0)
               /\ \A i \in (d[x - 1] + 1)..(d[x] - 1) : bytes[i] = x
               /\ d[x] = d[x - 1] + 1 <=> x = n + 1
    <3>1. CASE x = n + 1
      <4>1. d[x - 1] = len /\ d[x] = len + 1
        BY <2>1, <3>1
      <4>2. (len + 1)..(len + 1 - 1) = {} /\ len < len + 1
        BY <1>2
      <4>3. (d[x - 1] + 1)..(d[x] - 1) = {}
        <5>1. d[x - 1] \in Int /\ d[x] \in Int /\ d[x] - 1 < d[x - 1] + 1
          BY <1>2, <4>1
        <5> QED BY <5>1
      <4>4. ~(x < n + 1)
        BY <3>1
      <4>5. d[x - 1] < d[x] /\ d[x] = d[x - 1] + 1
        BY <4>1, <4>2
      <4> QED BY <3>1, <4>3, <4>4, <4>5
    <3>2. CASE x # n + 1
      <4>1. x \in 1..n
        BY <3>2
      <4>2. d[x] = o[x] /\ d[x - 1] = o[x - 1]
        BY <2>1, <4>1
      <4>3. bytes[o[x]] = 0 /\ \A i \in (o[x - 1] + 1)..(o[x] - 1) : bytes[i] = x
        BY <1>2, <4>1
      <4>4. o[x - 1] < o[x] /\ o[x] # o[x - 1] + 1 /\ x # n + 1
        BY <1>3, <4>1
      <4>5. d[x] = d[x - 1] + 1 <=> x = n + 1
        BY <4>2, <4>4
      <4>6. \A i \in (d[x - 1] + 1)..(d[x] - 1) : bytes[i] = x
        BY <4>2, <4>3
      <4>7. d[x - 1] < d[x] /\ bytes[d[x]] = 0
        BY <4>2, <4>3, <4>4
      <4> QED BY <4>5, <4>6, <4>7
    <3> QED BY <3>1, <3>2
  <2>3. ledger.bytes = bytes /\ ~ledger.torn /\ n + 1 \in Nat \ {0}
    BY <1>4 DEF bytes
  <2>4. Borders(d, n + 1)
    BY <1>2, <2>1, <2>2, <2>3 DEF Borders, len
  <2> QED BY <2>4
<1>5. CASE mark # "newline"
  <2>1. n \in Nat \ {0} /\ ledger.bytes = SubSeq(bytes, 1, len - 1)
    BY <1>5 DEF Front, bytes, len
  <2>2. len \in Nat \ {0}
    <3>1. n \in 1..n
      BY <2>1
    <3> QED BY <1>2, <1>3, <3>1
  <2>3. /\ ledger.bytes \in Seq(Nat) /\ Len(ledger.bytes) = len - 1
        /\ \A i \in 1..(len - 1) : ledger.bytes[i] = bytes[i]
    <3> DEFINE m == len - 1
    <3>1. m \in Nat /\ \A i \in 1..m : i \in 1..len
      BY <2>2
    <3>2. \A i \in 1..m : bytes[i] \in Nat
      BY <1>2, <3>1, ElementOfSeq DEF len
    <3> HIDE DEF m
    <3>3. /\ SubSeq(bytes, 1, m) \in Seq(Nat)
          /\ Len(SubSeq(bytes, 1, m)) = IF 1 <= m THEN m - 1 + 1 ELSE 0
          /\ \A i \in 1..(m - 1 + 1) : SubSeq(bytes, 1, m)[i] = bytes[1 + i - 1]
      BY <3>1, <3>2, SubSeqProperties
    <3>4. (IF 1 <= m THEN m - 1 + 1 ELSE 0) = m /\ m - 1 + 1 = m /\ \A i \in 1..m : 1 + i - 1 = i
      BY <3>1
    <3> QED BY <2>1, <3>3, <3>4 DEF m
  <2>4. ASSUME NEW x \in 1..n
        PROVE  /\ o[x - 1] < o[x] /\ (x < n => ledger.bytes[o[x]] = 0)
               /\ \A i \in (o[x - 1] + 1)..(o[x] - 1) : ledger.bytes[i] = x
               /\ o[x] = o[x - 1] + 1 <=> x = n + 1
    <3>1. o[x - 1] \in Nat /\ o[x] \in Nat /\ o[x] <= len /\ o[x - 1] < o[x]
      BY <1>2, <1>3
    <3>2. \A i \in (o[x - 1] + 1)..(o[x] - 1) : ledger.bytes[i] = x
      <4>1. \A i \in (o[x - 1] + 1)..(o[x] - 1) : i \in 1..(len - 1)
        BY <2>2, <3>1
      <4> QED BY <1>2, <2>3, <4>1
    <3>3. ASSUME x < n PROVE ledger.bytes[o[x]] = 0
      <4>1. x + 1 \in 1..n /\ x + 1 - 1 = x
        BY <3>3
      <4> DEFINE y == x + 1
      <4>4. y \in 1..n /\ y - 1 = x
        BY <4>1
      <4> HIDE DEF y
      <4>5. o[y] \in Nat /\ o[y] <= len /\ o[y - 1] < o[y]
        BY <1>2, <1>3, <4>4
      <4>2. o[x + 1] \in Nat /\ o[x + 1] <= len /\ o[x] < o[x + 1]
        BY <4>4, <4>5 DEF y
      <4>3. o[x] \in 1..(len - 1)
        BY <2>2, <3>1, <4>2
      <4> QED BY <1>2, <2>3, <4>3
    <3> QED BY <1>3, <3>1, <3>2, <3>3
  <2>5. o[n] = Len(ledger.bytes) + 1
    BY <1>2, <2>2, <2>3
  <2>6. Borders(o, n)
    BY <1>2, <2>1, <2>3, <2>4, <2>5 DEF Borders
  <2> QED BY <2>6
<1> QED BY <1>4, <1>5

\* The bytes of a whole line are those of its number, in a file without faults.
LEMMA LineBroken ==
  ASSUME NEW o, NEW k, Borders(o, k), NEW n \in 1..ledger.lines
  PROVE  /\ LineOf(o, n) # <<>> /\ LineOf(o, n)[1] = n /\ Last(LineOf(o, n)) = n
         /\ Broken(LineOf(o, n)) <=> ledger.torn /\ n = ledger.lines
<1> DEFINE line == LineOf(o, n)
           len == o[n] - o[n - 1] - 1
           places == (o[n - 1] + 1)..(o[n] - 1)
           same == {i \in 1..Len(ledger.bytes) : ledger.bytes[i] = n}
<1>0. /\ k \in Nat \ {0} /\ (\A x \in 0..k : o[x] \in Nat) /\ Len(ledger.bytes) \in Nat
      /\ o[k] = Len(ledger.bytes) + 1 /\ ledger.lines \in Nat /\ n \in 1..k /\ o[0] = 0
  <2>1. k \in Nat \ {0} /\ ledger.lines \in Nat /\ k \in {ledger.lines, ledger.lines + 1}
    BY DEF Borders
  <2>2. n \in 1..k
    BY <2>1
  <2> QED BY <2>1, <2>2, LenProperties DEF Borders
<1>1. o[n - 1] \in Nat /\ o[n] \in Nat /\ o[n - 1] < o[n] /\ o[n] # o[n - 1] + 1
  <2>1. n - 1 \in 0..k /\ n \in 0..k /\ n # ledger.lines + 1
    BY <1>0
  <2> QED BY <1>0, <2>1 DEF Borders
<1>2. len \in Nat \ {0}
  BY <1>1
<1>3. line \in [1..len -> Nat] /\ \A i \in 1..len : line[i] = n
  BY DEF LineOf, PartOf
<1> HIDE DEF line
<1>4. line \in Seq(Nat) /\ Len(line) = len
  <2> HIDE DEF len
  <2> QED BY <1>2, <1>3, SequenceOfLength
<1>5. line # <<>> /\ line[1] = n /\ Last(line) = n
  <2> HIDE DEF len
  <2>1. 1 \in 1..len /\ len \in 1..len
    BY <1>2
  <2> QED BY <1>2, <1>3, <1>4, <2>1 DEF Last
<1>6. same = places
  <2>1. o[n] <= Len(ledger.bytes) + 1
    <3>1. n = k \/ o[n] < o[k]
      <4>1. n \in 0..k /\ k \in 0..k /\ (n = k \/ n < k)
        BY <1>0
      <4> QED BY <4>1, BordersGrow
    <3> QED BY <1>0, <1>1, <3>1
  <2>2. ASSUME NEW i \in places PROVE i \in same
    <3>1. i \in 1..Len(ledger.bytes)
      BY <1>0, <1>1, <2>1
    <3>2. ledger.bytes[i] = n
      BY <1>0 DEF Borders
    <3> QED BY <3>1, <3>2
  <2>3. ASSUME NEW i \in same PROVE i \in places
    <3> DEFINE S == {x \in 0..k : i <= o[x]}
    <3>1. PICK x \in S : \A y \in S : x <= y
      <4>1. S \in SUBSET Nat /\ k \in S
        BY <1>0
      <4> QED BY <4>1, LeastNumber
    <3>2. x \in 1..k /\ i <= o[x] /\ x - 1 \in 0..k /\ o[x] \in Nat /\ o[x - 1] \in Nat
      BY <1>0
    <3>3. o[x - 1] < i
      BY <1>0, <3>1, <3>2
    <3>4. i # o[x]
      <4> SUFFICES ASSUME i = o[x] PROVE FALSE
        OBVIOUS
      <4>1. x # k
        BY <1>0
      <4>2. x \in 1..k /\ x < k
        BY <1>0, <3>2, <4>1
      <4>3. ledger.bytes[o[x]] = 0
        BY <4>2 DEF Borders
      <4> QED BY <4>3
    <3>5. i \in (o[x - 1] + 1)..(o[x] - 1)
      BY <3>2, <3>3, <3>4
    <3>6. ledger.bytes[i] = x
      BY <3>2, <3>5 DEF Borders
    <3> QED BY <3>5, <3>6
  <2> HIDE DEF same, places
  <2> QED BY <2>2, <2>3
<1>7. Cardinality(same) = len
  <2>1. o[n - 1] + 1 \in Int /\ o[n] - 1 \in Int
    BY <1>1
  <2>2. Cardinality(places) = IF o[n - 1] + 1 > o[n] - 1 THEN 0 ELSE (o[n] - 1) - (o[n - 1] + 1) + 1
    BY <2>1, FS_Interval
  <2>3. ~(o[n - 1] + 1 > o[n] - 1) /\ (o[n] - 1) - (o[n - 1] + 1) + 1 = len
    BY <1>1
  <2> HIDE DEF same, places, len
  <2> QED BY <1>6, <2>2, <2>3
<1>8. Broken(line) <=> ledger.torn /\ n = ledger.lines
  <2> HIDE DEF len
  <2> QED BY <1>4, <1>5, <1>7 DEF Broken
<1> QED BY <1>5, <1>8 DEF line

\* Which lines the pattern finds a number in, and which number.
LEMMA LineNumbered ==
  ASSUME NEW o, NEW k, Borders(o, k), NEW n \in 1..k
  PROVE  /\ Visible \in Nat /\ Visible <= ledger.lines /\ ledger.lines <= Visible + 1
         /\ Numbered(LineOf(o, n)) <=> n <= Visible
         /\ n <= Visible => Number(LineOf(o, n)) = n \/ (ledger.torn /\ n = ledger.lines)
         /\ n <= Visible /\ Number(LineOf(o, n)) # n => Number(LineOf(o, n)) = 0
<1>0. ledger.lines \in Nat /\ k \in {ledger.lines, ledger.lines + 1} /\ (ledger.torn => ledger.lines = k) /\ k \in Nat \ {0}
  BY DEF Borders
<1>1. Visible \in Nat /\ Visible <= ledger.lines /\ ledger.lines <= Visible + 1
  BY <1>0 DEF Visible
<1>2. CASE n = ledger.lines + 1
  <2>1. o[n] = o[n - 1] + 1 /\ o[n - 1] \in Nat
    <3>1. n - 1 \in 0..k
      BY <1>0
    <3> QED BY <1>2, <3>1 DEF Borders
  <2>2. LineOf(o, n) = <<>>
    BY <2>1 DEF LineOf, PartOf
  <2> QED BY <1>0, <1>1, <1>2, <2>2 DEF Numbered
<1>3. CASE n # ledger.lines + 1
  <2>1. n \in 1..ledger.lines
    BY <1>0, <1>3
  <2>2. /\ LineOf(o, n) # <<>> /\ Last(LineOf(o, n)) = n
        /\ Broken(LineOf(o, n)) <=> ledger.torn /\ n = ledger.lines
    BY <2>1, LineBroken
  <2>3. Numbered(LineOf(o, n)) <=> n <= Visible
    BY <1>0, <2>1, <2>2 DEF Numbered, Visible
  <2>4. Number(LineOf(o, n)) = IF Broken(LineOf(o, n)) /\ ledger.number = "low" THEN 0 ELSE n
    BY <2>2 DEF Number
  <2> QED BY <1>1, <2>2, <2>3, <2>4
<1> QED BY <1>1, <1>2, <1>3

\* The lines behind the a-th up to the b-th, none if that is not behind it.
LinesFrom(o, a, b) == [i \in 1..(b - a) |-> LineOf(o, a + i)]

\* As far as the scan for newer lines can tell lines.
Upto(n) == IF n < Visible THEN n ELSE Visible

\* There are as many of them as the numbers say.
LEMMA LinesAreLines ==
  ASSUME NEW o, NEW k, Borders(o, k), NEW a \in Nat, NEW b \in Int, b <= k
  PROVE  /\ LinesFrom(o, a, b) \in Seq(Seq(Nat))
         /\ Len(LinesFrom(o, a, b)) = IF a <= b THEN b - a ELSE 0
         /\ b <= a => LinesFrom(o, a, b) = <<>>
<1>0. k \in Nat /\ \A n \in 0..k : o[n] \in Nat
  BY DEF Borders
<1>1. CASE a <= b
  <2>1. ASSUME NEW i \in 1..(b - a) PROVE LineOf(o, a + i) \in Seq(Nat)
    <3> DEFINE n == a + i
    <3>1. n \in 1..k /\ n - 1 \in 0..k
      BY <1>0
    <3> HIDE DEF n
    <3>2. o[n] \in Nat /\ o[n - 1] \in Nat /\ o[n - 1] < o[n]
      BY <1>0, <3>1 DEF Borders
    <3> DEFINE len == o[n] - o[n - 1] - 1
    <3>3. len \in Nat
      BY <3>2
    <3>4. LineOf(o, n) = [x \in 1..len |-> n]
      BY DEF LineOf, PartOf
    <3> HIDE DEF len
    <3>5. [x \in 1..len |-> n] \in [1..len -> Nat]
      BY <3>1
    <3>6. LineOf(o, n) \in Seq(Nat)
      BY <3>3, <3>4, <3>5, SequenceOfLength
    <3> QED BY <3>6 DEF n
  <2> DEFINE n == b - a
  <2>2. n \in Nat
    BY <1>1
  <2>3. LinesFrom(o, a, b) \in [1..n -> Seq(Nat)]
    BY <2>1 DEF LinesFrom
  <2>4. b <= a => LinesFrom(o, a, b) = <<>>
    <3> SUFFICES ASSUME b <= a PROVE LinesFrom(o, a, b) = <<>>
      OBVIOUS
    <3>1. 1..(b - a) = {}
      OBVIOUS
    <3> QED BY <3>1 DEF LinesFrom
  <2> HIDE DEF n
  <2>5. LinesFrom(o, a, b) \in Seq(Seq(Nat)) /\ Len(LinesFrom(o, a, b)) = n
    BY <2>2, <2>3, SequenceOfLength
  <2> QED BY <1>1, <2>4, <2>5 DEF n
<1>2. CASE ~(a <= b)
  <2>1. 1..(b - a) = {}
    BY <1>2
  <2>2. LinesFrom(o, a, b) = <<>>
    BY <2>1 DEF LinesFrom
  <2> QED BY <1>2, <2>2, EmptySeq
<1> QED BY <1>1, <1>2

\* Lines up to the b-th and those behind it are all of them.
LEMMA LinesJoin ==
  ASSUME NEW o, NEW k, Borders(o, k), NEW a \in Nat, NEW b \in Nat, NEW c \in Nat,
         a <= b, b <= c, c <= k
  PROVE  LinesFrom(o, a, b) \o LinesFrom(o, b, c) = LinesFrom(o, a, c)
<1> DEFINE s == LinesFrom(o, a, b)
           t == LinesFrom(o, b, c)
           u == LinesFrom(o, a, c)
           v == s \o t
<1>0. k \in Nat
  BY DEF Borders
<1>1. s \in Seq(Seq(Nat)) /\ Len(s) = b - a
  <2>1. b \in Int /\ b <= k
    BY <1>0
  <2> QED BY <2>1, LinesAreLines
<1>2. t \in Seq(Seq(Nat)) /\ Len(t) = c - b /\ u \in Seq(Seq(Nat)) /\ Len(u) = c - a
  <2>1. a <= c /\ c \in Int
    OBVIOUS
  <2>2. t \in Seq(Seq(Nat)) /\ Len(t) = IF b <= c THEN c - b ELSE 0
    BY <2>1, LinesAreLines
  <2>3. u \in Seq(Seq(Nat)) /\ Len(u) = IF a <= c THEN c - a ELSE 0
    BY <2>1, LinesAreLines
  <2> QED BY <2>1, <2>2, <2>3
<1>3. ASSUME NEW i \in 1..(b - a) PROVE s[i] = LineOf(o, a + i)
  BY DEF LinesFrom
<1>4. ASSUME NEW i \in 1..(c - b) PROVE t[i] = LineOf(o, b + i)
  BY DEF LinesFrom
<1>5. ASSUME NEW i \in 1..(c - a) PROVE u[i] = LineOf(o, a + i)
  BY DEF LinesFrom
<1> HIDE DEF s, t, u
<1>6. /\ v \in Seq(Seq(Nat)) /\ Len(v) = Len(s) + Len(t)
      /\ \A i \in 1..(Len(s) + Len(t)) : v[i] = IF i <= Len(s) THEN s[i] ELSE t[i - Len(s)]
  BY <1>1, <1>2, ConcatProperties
<1> HIDE DEF v
<1>7. Len(s) + Len(t) = c - a
  BY <1>1, <1>2
<1>8. ASSUME NEW i \in 1..Len(v) PROVE v[i] = u[i]
  <2>1. i \in 1..(c - a) /\ v[i] = IF i <= b - a THEN s[i] ELSE t[i - (b - a)]
    BY <1>1, <1>6, <1>7
  <2>2. CASE i <= b - a
    <3>1. i \in 1..(b - a)
      BY <2>1, <2>2
    <3> QED BY <1>3, <1>5, <2>1, <2>2, <3>1
  <2>3. CASE ~(i <= b - a)
    <3>1. i - (b - a) \in 1..(c - b) /\ b + (i - (b - a)) = a + i
      BY <2>1, <2>3
    <3> QED BY <1>4, <1>5, <2>1, <2>3, <3>1
  <2> QED BY <2>2, <2>3
<1>9. v = u
  BY <1>2, <1>6, <1>7, <1>8, SeqEqual
<1> QED BY <1>9 DEF s, t, u, v

\* One more line of a chunk is kept if it is newer and can be told.
KeptOf(o, a, n) == IF n > a /\ Numbered(LineOf(o, n)) THEN <<LineOf(o, n)>> ELSE <<>>

\* What the scan finds so far, one line later.
LEMMA OneMoreLine ==
  ASSUME NEW o, NEW k, Borders(o, k), NEW a \in Nat, NEW n \in 1..k
  PROVE  LinesFrom(o, a, Upto(n - 1)) \o KeptOf(o, a, n) = LinesFrom(o, a, Upto(n))
<1>0. k \in Nat /\ ledger.lines \in Nat /\ k \in {ledger.lines, ledger.lines + 1}
  BY DEF Borders
<1>1. Visible \in Nat /\ Visible <= k /\ (Numbered(LineOf(o, n)) <=> n <= Visible)
  <2>1. Visible \in Nat /\ Visible <= ledger.lines /\ (Numbered(LineOf(o, n)) <=> n <= Visible)
    BY LineNumbered
  <2> QED BY <1>0, <2>1
<1>2. Upto(n - 1) \in Int /\ Upto(n - 1) <= k /\ Upto(n - 1) <= n - 1 /\ Upto(n) \in Int /\ Upto(n) <= k /\ Upto(n) <= n
  BY <1>0, <1>1 DEF Upto
<1>3. LinesFrom(o, a, Upto(n - 1)) \in Seq(Seq(Nat))
  BY <1>2, LinesAreLines
<1>4. CASE n > a /\ n <= Visible
  <2>1. Upto(n - 1) = n - 1 /\ Upto(n) = n
    BY <1>1, <1>4 DEF Upto
  <2>2. LinesFrom(o, n - 1, n) = <<LineOf(o, n)>>
    <3> DEFINE b == n - 1
    <3>1. n - b = 1 /\ b + 1 = n
      OBVIOUS
    <3> HIDE DEF b
    <3>2. LinesFrom(o, b, n) = [i \in 1..1 |-> LineOf(o, b + i)]
      BY <3>1 DEF LinesFrom
    <3>3. [i \in 1..1 |-> LineOf(o, b + i)] = <<LineOf(o, b + 1)>>
      OBVIOUS
    <3>4. LinesFrom(o, b, n) = <<LineOf(o, n)>>
      BY <3>1, <3>2, <3>3
    <3> QED BY <3>4 DEF b
  <2>3. LinesFrom(o, a, n - 1) \o LinesFrom(o, n - 1, n) = LinesFrom(o, a, n)
    <3>1. n - 1 \in Nat /\ n \in Nat /\ a <= n - 1 /\ n - 1 <= n /\ n <= k
      BY <1>0, <1>4
    <3> QED BY <3>1, LinesJoin
  <2>4. KeptOf(o, a, n) = <<LineOf(o, n)>>
    BY <1>1, <1>4 DEF KeptOf
  <2> QED BY <2>1, <2>2, <2>3, <2>4
<1>5. CASE ~(n > a)
  <2>1. LinesFrom(o, a, Upto(n - 1)) = <<>> /\ LinesFrom(o, a, Upto(n)) = <<>>
    <3>1. Upto(n - 1) <= a /\ Upto(n) <= a
      BY <1>2, <1>5
    <3> QED BY <1>2, <3>1, LinesAreLines
  <2>2. KeptOf(o, a, n) = <<>>
    BY <1>5 DEF KeptOf
  <2> QED BY <1>3, <2>1, <2>2, ConcatEmptySeq
<1>6. CASE ~(n <= Visible)
  <2>1. Upto(n - 1) = Upto(n)
    BY <1>1, <1>6 DEF Upto
  <2>2. KeptOf(o, a, n) = <<>>
    BY <1>1, <1>6 DEF KeptOf
  <2> QED BY <1>3, <2>1, <2>2, ConcatEmptySeq
<1> QED BY <1>4, <1>5, <1>6

\* What is kept of a chunk: its lines behind the x-th that can be told.
KeptLines(body, x) ==
    FlattenSeq([i \in 1..Len(body) |-> IF i > x /\ Numbered(body[i]) THEN <<body[i]>> ELSE <<>>])

\* They are all its lines behind that one that can be told.
LEMMA KeptAreLines ==
  ASSUME NEW o, NEW k, Borders(o, k), NEW r \in Nat, NEW body \in Seq(Seq(Nat)), r + Len(body) <= k,
         \A i \in 1..Len(body) : body[i] = LineOf(o, r + i), NEW x \in Nat
  PROVE  KeptLines(body, x) = LinesFrom(o, r + x, Upto(r + Len(body)))
<1> DEFINE n == Len(body)
           a == [i \in 1..n |-> IF i > x /\ Numbered(body[i]) THEN <<body[i]>> ELSE <<>>]
           from == r + x
<1>0. n \in Nat /\ k \in Nat
  BY LenProperties DEF Borders
<1>1. ASSUME NEW i \in 1..n
      PROVE  a[i] = KeptOf(o, from, r + i) /\ a[i] \in Seq(Seq(Nat)) /\ r + i \in 1..k
             /\ r + i - 1 = r + (i - 1)
  <2>1. body[i] = LineOf(o, r + i) /\ body[i] \in Seq(Nat)
    BY ElementOfSeq
  <2>2. i > x <=> r + i > from
    OBVIOUS
  <2> QED BY <1>0, <2>1, <2>2 DEF KeptOf
<1>2. a \in [1..n -> Seq(Seq(Nat))]
  BY <1>1
<1>3. LinesFrom(o, from, Upto(r)) = <<>> /\ from \in Nat
  <2>1. 1 \in 1..k
    BY DEF Borders
  <2>2. Visible \in Nat /\ Visible <= ledger.lines
    BY <2>1, LineNumbered
  <2>3. ledger.lines \in Nat /\ ledger.lines <= k
    BY <1>0 DEF Borders
  <2>4. Upto(r) \in Int /\ Upto(r) <= from /\ Upto(r) <= k /\ from \in Nat
    BY <1>0, <2>2, <2>3 DEF Upto
  <2> QED BY <2>4, LinesAreLines
<1> HIDE DEF n, a, from
<1>4. CASE n = 0
  <2>1. Len(a) = 0 /\ a \in Seq(Seq(Seq(Nat)))
    BY <1>2, <1>4, SequenceOfLength
  <2>2. FlattenSeq(a) = <<>>
    BY <2>1, EmptySeq DEF FlattenSeq
  <2>3. r + n = r
    BY <1>4
  <2>4. FlattenSeq(a) = LinesFrom(o, from, Upto(r + n))
    BY <1>3, <2>2, <2>3
  <2> QED BY <2>4 DEF KeptLines, a, n, from
<1>5. CASE n # 0
  <2>1. PICK f : Joins(f, a, n, Seq(Nat)) /\ FlattenSeq(a) = f[n]
    <3>1. n \in Nat \ {0}
      BY <1>0, <1>5
    <3> QED BY <1>2, <3>1, FlattenSolves
  <2> DEFINE T == {0} \cup {i \in 1..n : f[i] = LinesFrom(o, from, Upto(r + i))}
  <2>2. ASSUME NEW i \in 1..n, i - 1 \in T PROVE i \in T
    <3>1. f[i] = IF i = 1 THEN a[i] ELSE f[i - 1] \o a[i]
      BY <2>1 DEF Joins
    <3>2. LinesFrom(o, from, Upto(r + (i - 1))) \o a[i] = LinesFrom(o, from, Upto(r + i))
      <4> DEFINE q == r + i
      <4>1. q \in 1..k /\ q - 1 = r + (i - 1) /\ a[i] = KeptOf(o, from, q)
        BY <1>1
      <4> HIDE DEF q
      <4>2. LinesFrom(o, from, Upto(q - 1)) \o KeptOf(o, from, q) = LinesFrom(o, from, Upto(q))
        BY <1>3, <4>1, OneMoreLine
      <4>3. LinesFrom(o, from, Upto(r + (i - 1))) \o a[i] = LinesFrom(o, from, Upto(q))
        BY <4>1, <4>2
      <4> QED BY <4>3 DEF q
    <3>3. CASE i = 1
      <4>1. r + (i - 1) = r
        BY <3>3
      <4>2. <<>> \o a[i] = a[i]
        BY <1>1, ConcatEmptySeq
      <4> QED BY <1>3, <3>1, <3>2, <3>3, <4>1, <4>2
    <3>4. CASE i # 1
      <4>1. i - 1 \in 1..n
        BY <1>0, <3>4
      <4>2. f[i - 1] = LinesFrom(o, from, Upto(r + (i - 1)))
        BY <2>2, <4>1
      <4> QED BY <3>1, <3>2, <3>4, <4>2
    <3> QED BY <3>3, <3>4
  <2>3. 0 \in T
    OBVIOUS
  <2> HIDE DEF T
  <2>4. 0..n \subseteq T
    BY <1>0, <2>2, <2>3, InductionUpTo
  <2>5. n \in T
    BY <1>0, <2>4
  <2>6. FlattenSeq(a) = LinesFrom(o, from, Upto(r + n))
    BY <1>5, <2>1, <2>5 DEF T
  <2> QED BY <2>6 DEF KeptLines, a, n, from
<1> QED BY <1>4, <1>5

\* The scan, as it is written down.
ScanRecord ==
    [kind : {"after", "last"}, after : Nat, chunk : Nat \ {0}, position : Nat, leftover : Seq(Nat),
     found : Seq(Seq(Nat)), phase : {"scanning", "yielding", "done", "failed"}]

\* The last line that a scan can hand over, and from where on it is asked for lines.
End(s) == IF s.kind = "last" THEN ledger.lines ELSE Visible
Wanted(s, from) ==
    /\ from \in Nat /\ from <= End(s)
    /\ s.kind = "after" => \A n \in (from + 1)..End(s) : n > s.after
    /\ s.kind = "last" => from = IF ledger.lines = 0 THEN 0 ELSE ledger.lines - 1

\* While it searches, what is left over is the beginning of the m-th line, and the
\* lines behind that one have been found, or are empty.
Searching(o, s, m) ==
    /\ o[m - 1] <= s.position /\ s.position < o[m]
    /\ s.leftover = PartOf(o, m, s.position)
    /\ s.kind = "after" => /\ s.found = LinesFrom(o, m, Visible)
                           /\ \A n \in (m + 1)..Visible : n > s.after
    /\ s.kind = "last" => s.found = <<>> /\ ledger.lines <= m

\* While it hands over, the lines that were read and those still to come follow
\* each other up to the last.
Handing(o, s, lines, from) ==
    /\ Wanted(s, from)
    /\ lines \in Seq(Nat) /\ from + Len(lines) <= End(s)
    /\ \A i \in 1..Len(lines) : lines[i] = from + i /\ ~(ledger.torn /\ lines[i] = ledger.lines)
    /\ s.found = LinesFrom(o, from + Len(lines), End(s))

\* The scan s, after these lines were read.
ScanOK(o, k, s, lines) ==
    /\ s \in ScanRecord
    /\ s.phase = "scanning" => lines = <<>> /\ \E m \in 1..k : Searching(o, s, m)
    /\ s.phase # "scanning" => \E from \in Nat : Handing(o, s, lines, from)
    /\ s.phase = "done" => s.found = <<>>
    /\ s.phase = "failed" => ledger.torn

\* The inductive invariant of the scans, for the borders that the file has.
ScanIndInv == \E o, k : Borders(o, k) /\ ScanOK(o, k, scan, read)

\* The next position is lower.
LEMMA MinOfTwo ==
  ASSUME NEW a \in Nat \ {0}, NEW b \in Nat \ {0}
  PROVE  Min({a, b}) \in 1..a
<1>1. \E x \in {a, b} : \A y \in {a, b} : x <= y
  OBVIOUS
<1>2. Min({a, b}) \in {a, b} /\ Min({a, b}) <= a
  BY <1>1 DEF Min
<1> QED BY <1>2

\* A chunk in front of what was left over is a part of the file.
LEMMA JoinedIsRest ==
  ASSUME NEW o, NEW k, Borders(o, k), NEW m \in 1..k, scan.position \in Nat,
         o[m - 1] <= scan.position, scan.position < o[m],
         scan.leftover = PartOf(o, m, scan.position), NEW p \in Nat, p < scan.position
  PROVE  IsRest(o, m, p, Joined(p)) /\ p < o[m]
<1> DEFINE at == scan.position
           front == SubSeq(ledger.bytes, p + 1, at)
           rest == scan.leftover
           J == front \o rest
           len == o[m] - at - 1
<1>0. /\ k \in Nat /\ ledger.bytes \in Seq(Nat) /\ o[m] \in Nat /\ o[m - 1] \in Nat
      /\ o[m] <= Len(ledger.bytes) + 1 /\ Len(ledger.bytes) \in Nat
  <2>1. k \in Nat /\ ledger.bytes \in Seq(Nat) /\ (\A x \in 0..k : o[x] \in Nat)
        /\ o[k] = Len(ledger.bytes) + 1 /\ Len(ledger.bytes) \in Nat
    BY LenProperties DEF Borders
  <2>2. m - 1 \in 0..k /\ m \in 0..k /\ k \in 0..k /\ (m = k \/ m < k)
    BY <2>1
  <2>3. m = k \/ o[m] < o[k]
    BY <2>2, BordersGrow
  <2>4. o[m] \in Nat /\ o[m - 1] \in Nat /\ o[k] \in Nat
    BY <2>1, <2>2
  <2> QED BY <2>1, <2>3, <2>4
<1>9. at \in Nat /\ o[m - 1] <= at /\ at < o[m] /\ p < at /\ rest = PartOf(o, m, at)
  OBVIOUS
<1> HIDE DEF at, rest
<1>1. len \in Nat /\ at \in Nat /\ at <= Len(ledger.bytes) /\ at - p \in Nat
  <2>1. at + 1 <= o[m]
    BY <1>0, <1>9
  <2>2. at <= Len(ledger.bytes)
    BY <1>0, <1>9
  <2> QED BY <1>0, <1>9, <2>1, <2>2
<1>2. front \in Seq(Nat) /\ Len(front) = at - p /\ \A i \in 1..(at - p) : front[i] = ledger.bytes[p + i]
  <2>1. \A i \in (p + 1)..at : ledger.bytes[i] \in Nat
    <3>1. \A i \in (p + 1)..at : i \in 1..Len(ledger.bytes)
      BY <1>0, <1>1
    <3> QED BY <1>0, <3>1, ElementOfSeq
  <2>2. p + 1 \in Int /\ at \in Int
    BY <1>1
  <2>3. /\ front \in Seq(Nat)
        /\ Len(front) = IF p + 1 <= at THEN at - (p + 1) + 1 ELSE 0
        /\ \A i \in 1..(at - (p + 1) + 1) : front[i] = ledger.bytes[p + 1 + i - 1]
    BY <2>1, <2>2, SubSeqProperties
  <2>4. p + 1 <= at /\ at - (p + 1) + 1 = at - p
    BY <1>1, <1>9
  <2>5. \A i \in Nat : p + 1 + i - 1 = p + i
    OBVIOUS
  <2>6. \A i \in 1..(at - p) : i \in Nat
    OBVIOUS
  <2> HIDE DEF front
  <2> QED BY <2>3, <2>4, <2>5, <2>6
<1>3. rest \in Seq(Nat) /\ Len(rest) = len /\ \A i \in 1..len : rest[i] = m
  <2>1. rest = [i \in 1..len |-> m]
    BY <1>9 DEF PartOf
  <2> HIDE DEF len
  <2>2. rest \in [1..len -> Nat] /\ \A i \in 1..len : rest[i] = m
    BY <2>1
  <2> QED BY <1>1, <2>2, SequenceOfLength
<1> HIDE DEF front
<1>4. /\ J \in Seq(Nat) /\ Len(J) = Len(front) + Len(rest)
      /\ \A i \in 1..(Len(front) + Len(rest)) :
            J[i] = IF i <= Len(front) THEN front[i] ELSE rest[i - Len(front)]
  BY <1>2, <1>3, ConcatProperties
<1>5. Len(J) = o[m] - 1 - p /\ Len(J) = (at - p) + len
  <2>1. Len(J) = (at - p) + len
    BY <1>2, <1>3, <1>4
  <2>2. (at - p) + len = o[m] - 1 - p
    BY <1>0, <1>9
  <2> QED BY <2>1, <2>2
<1>6. ASSUME NEW i \in 1..Len(J) PROVE J[i] = ledger.bytes[p + i]
  <2>1. J[i] = IF i <= at - p THEN front[i] ELSE rest[i - (at - p)]
    BY <1>2, <1>4
  <2>2. CASE i <= at - p
    <3>1. i \in 1..(at - p)
      BY <1>1, <2>2
    <3> QED BY <1>2, <2>1, <2>2, <3>1
  <2>3. CASE ~(i <= at - p)
    <3>0. i \in Nat /\ i <= (at - p) + len /\ at - p \in Nat /\ at - p < i
      BY <1>1, <1>5, <2>3
    <3>1. i - (at - p) \in 1..len
      <4> HIDE DEF len
      <4> QED BY <1>1, <3>0
    <3>2. p + i \in (o[m - 1] + 1)..(o[m] - 1)
      <4>1. p + i > at /\ p + i <= at + len
        <5> HIDE DEF len
        <5> QED BY <1>1, <3>0
      <4>2. at + len = o[m] - 1
        BY <1>0, <1>9
      <4>3. p + i \in Nat
        BY <3>0
      <4>4. p + i >= o[m - 1] + 1
        BY <1>0, <1>9, <4>1, <4>3
      <4>5. p + i <= o[m] - 1
        BY <4>1, <4>2
      <4> QED BY <1>0, <4>3, <4>4, <4>5
    <3>3. ledger.bytes[p + i] = m
      BY <3>2 DEF Borders
    <3> QED BY <1>3, <2>1, <2>3, <3>1, <3>3
  <2> QED BY <2>2, <2>3
<1>7. p < o[m]
  BY <1>0, <1>9
<1> HIDE DEF J
<1>8. IsRest(o, m, p, J)
  BY <1>4, <1>5, <1>6 DEF IsRest
<1> QED BY <1>7, <1>8 DEF J, front, rest, at, Joined

\* The whole lines of a chunk, those from the q-th on.
BodyOf(p, s) == IF p > 0 THEN Tail(s) ELSE s

\* They are the lines of the file from there on.
LEMMA BodyLines ==
  ASSUME NEW o, NEW k, Borders(o, k), NEW m \in 1..k, NEW p \in Nat, NEW s, NEW r, Parted(o, m, p, s, r)
  PROVE  \E q \in 0..m :
            /\ BodyOf(p, s) \in Seq(Seq(Nat)) /\ Len(BodyOf(p, s)) = m - q
            /\ \A i \in 1..Len(BodyOf(p, s)) : BodyOf(p, s)[i] = LineOf(o, q + i)
            /\ p > 0 => q = r
<1>0. /\ s \in Seq(Seq(Nat)) /\ r \in 1..m /\ Len(s) = m - r + 1 /\ o[r - 1] <= p /\ s[1] = PartOf(o, r, p)
      /\ \A x \in 2..Len(s) : s[x] = LineOf(o, r + x - 1)
  BY DEF Parted
<1>1. CASE p > 0
  <2> DEFINE body == Tail(s)
  <2>1. s # <<>>
    BY <1>0, EmptySeq
  <2>2. /\ body \in Seq(Seq(Nat)) /\ Len(body) = m - r
        /\ \A i \in 1..Len(body) : body[i] = s[i + 1]
    BY <1>0, <2>1, HeadTailProperties
  <2>3. ASSUME NEW i \in 1..Len(body) PROVE body[i] = LineOf(o, r + i)
    <3>1. i + 1 \in 2..Len(s) /\ r + (i + 1) - 1 = r + i
      BY <1>0, <2>2
    <3> QED BY <1>0, <2>2, <3>1
  <2>4. BodyOf(p, s) = body /\ r \in 0..m
    BY <1>0, <1>1 DEF BodyOf
  <2> HIDE DEF body
  <2> QED BY <2>2, <2>3, <2>4
<1>2. CASE ~(p > 0)
  <2>1. p = 0
    BY <1>2
  <2>2. r = 1
    <3>1. k \in Nat /\ o[0] = 0 /\ \A x \in 0..k : o[x] \in Nat
      BY DEF Borders
    <3>2. r - 1 \in 0..k /\ 0 \in 0..k /\ (r - 1 = 0 \/ 0 < r - 1)
      BY <1>0, <3>1
    <3>3. r - 1 = 0 \/ o[0] < o[r - 1]
      BY <3>2, BordersGrow
    <3>4. o[r - 1] \in Nat
      BY <3>1, <3>2
    <3> QED BY <1>0, <2>1, <3>1, <3>3, <3>4
  <2>3. s[1] = LineOf(o, 1)
    <3>1. o[1 - 1] = 0
      BY DEF Borders
    <3> QED BY <1>0, <2>1, <2>2, <3>1 DEF LineOf
  <2>4. Len(s) = m - 0 /\ Len(s) \in Nat
    BY <1>0, <2>2
  <2>5. ASSUME NEW i \in 1..Len(s) PROVE s[i] = LineOf(o, 0 + i)
    <3>1. CASE i = 1
      BY <2>3, <3>1
    <3>2. CASE i # 1
      <4>1. i \in 2..Len(s) /\ r + i - 1 = 0 + i
        BY <2>2, <2>4, <3>2
      <4> QED BY <1>0, <4>1
    <3> QED BY <3>1, <3>2
  <2>6. BodyOf(p, s) = s /\ 0 \in 0..m
    BY <1>2 DEF BodyOf
  <2> QED BY <1>0, <1>2, <2>4, <2>5, <2>6
<1> QED BY <1>1, <1>2

\* The last line that is not newer, or none.
LEMMA LastOfSome ==
  ASSUME NEW n \in Nat, NEW S \in SUBSET (1..n)
  PROVE  /\ Max({0} \cup S) \in 0..n /\ \A i \in S : i <= Max({0} \cup S)
         /\ S = {} => Max({0} \cup S) = 0
<1> DEFINE all == {0} \cup S
           T == {x \in 0..n : \E g \in (all \cap 0..x) : \A y \in (all \cap 0..x) : y <= g}
<1>1. 0 \in T
  OBVIOUS
<1>2. ASSUME NEW x \in 1..n, x - 1 \in T PROVE x \in T
  <2>1. CASE x \in all
    <3>1. x \in all \cap 0..x /\ \A y \in (all \cap 0..x) : y <= x
      BY <2>1
    <3> QED BY <3>1
  <2>2. CASE x \notin all
    <3>1. \A y : y \in (all \cap 0..x) <=> y \in (all \cap 0..(x - 1))
      BY <2>2
    <3> QED BY <1>2, <3>1
  <2> QED BY <2>1, <2>2
<1> HIDE DEF T
<1>3. n \in T
  <2>1. 0..n \subseteq T
    BY <1>1, <1>2, InductionUpTo
  <2> QED BY <2>1
<1>4. PICK g \in all : \A y \in all : y <= g
  <2>1. \A y \in all : y \in 0..n
    OBVIOUS
  <2> QED BY <1>3, <2>1 DEF T
<1>5. all \in SUBSET Nat /\ g \in 0..n
  OBVIOUS
<1> HIDE DEF all
<1>6. Max(all) = g
  BY <1>4, <1>5, GreatestIsMax
<1>7. S = {} => g = 0
  BY <1>4 DEF all
<1> QED BY <1>4, <1>5, <1>6, <1>7 DEF all

\* The lines a scan hands over from the a-th on are the same if a is beyond them all.
LEMMA NothingBehindLast ==
  ASSUME NEW o, NEW k, Borders(o, k), NEW a \in Nat, NEW b \in Nat, b <= k
  PROVE  LinesFrom(o, a, b) = LinesFrom(o, IF a <= b THEN a ELSE b, b)
<1>1. CASE a <= b
  BY <1>1
<1>2. CASE ~(a <= b)
  <2>1. LinesFrom(o, a, b) = <<>> /\ LinesFrom(o, b, b) = <<>>
    BY <1>2, LinesAreLines
  <2> QED BY <1>2, <2>1
<1> QED BY <1>1, <1>2

\* One chunk of the scan for newer lines.
LEMMA ScanAfterKeeps ==
  ASSUME NEW o, NEW k, Borders(o, k), ScanOK(o, k, scan, read), ScanAfter
  PROVE  ScanOK(o, k, scan', read)
<1> DEFINE p == scan.position - Min({scan.position, scan.chunk})
           s == Split(Joined(p))
           body == IF p > 0 THEN Tail(s) ELSE s
           left == IF p > 0 THEN Head(s) ELSE <<>>
           older == {i \in 1..Len(body) : Numbered(body[i]) /\ Number(body[i]) <= scan.after}
           x == Max({0} \cup older)
           newer == FlattenSeq([i \in 1..Len(body) |->
                       IF i > x /\ Numbered(body[i]) THEN <<body[i]>> ELSE <<>>])
           found == newer \o scan.found
           phase == IF older # {} \/ left = <<>> THEN "yielding" ELSE "scanning"
<1>1. /\ scan.kind = "after" /\ scan.phase = "scanning" /\ scan.position > 0
      /\ scan' = [scan EXCEPT !.position = p, !.leftover = left, !.found = found, !.phase = phase]
  BY DEF ScanAfter
<1>2. scan \in ScanRecord /\ read = <<>>
  BY <1>1 DEF ScanOK
<1>3. PICK m \in 1..k : Searching(o, scan, m)
  BY <1>1 DEF ScanOK
<1>4. p \in Nat /\ p < scan.position /\ scan.position \in Nat /\ scan.after \in Nat
  <2>1. scan.position \in Nat \ {0} /\ scan.chunk \in Nat \ {0} /\ scan.after \in Nat
    BY <1>1, <1>2 DEF ScanRecord
  <2>2. Min({scan.position, scan.chunk}) \in 1..scan.position
    BY <2>1, MinOfTwo
  <2> QED BY <2>1, <2>2
<1> HIDE DEF p
<1>5. IsRest(o, m, p, Joined(p)) /\ p < o[m]
  BY <1>3, <1>4, JoinedIsRest DEF Searching
<1>6. PICK r : Parted(o, m, p, s, r)
  BY <1>4, <1>5, SplitParts
<1> HIDE DEF s
<1>7. PICK q \in 0..m :
         /\ body \in Seq(Seq(Nat)) /\ Len(body) = m - q
         /\ \A i \in 1..Len(body) : body[i] = LineOf(o, q + i)
         /\ p > 0 => q = r
  <2>1. body = BodyOf(p, s)
    BY DEF BodyOf
  <2> HIDE DEF body
  <2>2. \E q \in 0..m :
           /\ BodyOf(p, s) \in Seq(Seq(Nat)) /\ Len(BodyOf(p, s)) = m - q
           /\ \A i \in 1..Len(BodyOf(p, s)) : BodyOf(p, s)[i] = LineOf(o, q + i)
           /\ p > 0 => q = r
    <3>1. Parted(o, m, p, s, r) /\ p \in Nat /\ m \in 1..k
      BY <1>4, <1>6
    <3> HIDE DEF p, s
    <3> QED BY <3>1, BodyLines
  <2> QED BY <2>1, <2>2, Zenon
<1> HIDE DEF body
<1>8. /\ m \in Nat /\ q \in Nat /\ Len(body) \in Nat /\ k \in Nat /\ m <= k /\ q + Len(body) = m
      /\ Visible \in Nat /\ Visible <= k
  <2>1. 1 \in 1..k /\ k \in Nat /\ ledger.lines \in Nat /\ ledger.lines <= k
    BY DEF Borders
  <2>2. Visible \in Nat /\ Visible <= ledger.lines
    BY <2>1, LineNumbered
  <2> QED BY <1>7, <2>1, <2>2
<1>9. x \in 0..Len(body) /\ (\A i \in older : i <= x) /\ (older = {} => x = 0)
  <2>1. older \in SUBSET (1..Len(body))
    OBVIOUS
  <2> HIDE DEF older
  <2> QED BY <1>8, <2>1, LastOfSome
<1> HIDE DEF x
<1>10. newer = LinesFrom(o, q + x, Upto(m))
  <2>1. x \in Nat /\ q + Len(body) <= k
    BY <1>8, <1>9
  <2>2. newer = KeptLines(body, x)
    BY DEF KeptLines
  <2> HIDE DEF newer
  <2>3. KeptLines(body, x) = LinesFrom(o, q + x, Upto(q + Len(body)))
    BY <1>7, <1>8, <2>1, KeptAreLines
  <2> QED BY <1>8, <2>2, <2>3
<1> HIDE DEF newer
<1>11. found = LinesFrom(o, q + x, Visible)
  <2>0. scan.found = LinesFrom(o, m, Visible)
    BY <1>1, <1>3 DEF Searching
  <2>1. CASE m <= Visible
    <3>1. Upto(m) = m
      BY <1>8, <2>1 DEF Upto
    <3>2. q + x \in Nat /\ q + x <= m
      BY <1>8, <1>9
    <3>3. LinesFrom(o, q + x, m) \o LinesFrom(o, m, Visible) = LinesFrom(o, q + x, Visible)
      <4> DEFINE a == q + x
      <4> HIDE DEF a
      <4>1. a \in Nat /\ a <= m
        BY <3>2 DEF a
      <4>2. LinesFrom(o, a, m) \o LinesFrom(o, m, Visible) = LinesFrom(o, a, Visible)
        BY <1>8, <2>1, <4>1, LinesJoin
      <4> QED BY <4>2 DEF a
    <3> QED BY <1>10, <2>0, <3>1, <3>3
  <2>2. CASE ~(m <= Visible)
    <3>1. Upto(m) = Visible /\ Visible <= m
      BY <1>8, <2>2 DEF Upto
    <3>2. LinesFrom(o, m, Visible) = <<>>
      BY <1>8, <3>1, LinesAreLines
    <3>3. q + x \in Nat
      BY <1>8, <1>9
    <3>4. LinesFrom(o, q + x, Visible) \in Seq(Seq(Nat))
      BY <1>8, <3>3, LinesAreLines
    <3> QED BY <1>10, <2>0, <3>1, <3>2, <3>4, ConcatEmptySeq
  <2> QED BY <2>1, <2>2
<1>12. ASSUME NEW n \in (q + x + 1)..Visible PROVE n > scan.after
  <2>1. CASE n > m
    <3>1. n \in (m + 1)..Visible
      BY <1>8, <2>1
    <3> QED BY <1>1, <1>3, <3>1 DEF Searching
  <2>2. CASE ~(n > m)
    <3> DEFINE i == n - q
    <3>1. i \in 1..Len(body) /\ q + i = n /\ i > x /\ n \in 1..k /\ n <= Visible
      BY <1>8, <1>9, <2>2
    <3> HIDE DEF i
    <3>2. body[i] = LineOf(o, n)
      BY <1>7, <3>1
    <3>3. ~(i <= x)
      BY <1>8, <1>9, <3>1
    <3>4. i \notin older
      BY <1>9, <3>3
    <3>5. Numbered(LineOf(o, n))
      BY <3>1, LineNumbered
    <3>6. ~(Number(LineOf(o, n)) <= scan.after)
      BY <3>1, <3>2, <3>4, <3>5
    <3>7. Number(LineOf(o, n)) # n => Number(LineOf(o, n)) = 0
      BY <3>1, LineNumbered
    <3>8. Number(LineOf(o, n)) = n
      BY <1>4, <3>6, <3>7
    <3> QED BY <1>4, <3>1, <3>6, <3>8
  <2> QED BY <2>1, <2>2
<1>13. s \in Seq(Seq(Nat)) /\ r \in 1..m /\ o[r - 1] <= p /\ p < o[r] /\ s[1] = PartOf(o, r, p) /\ s # <<>>
  <2>1. /\ s \in Seq(Seq(Nat)) /\ r \in 1..m /\ o[r - 1] <= p /\ p < o[r] /\ s[1] = PartOf(o, r, p)
        /\ Len(s) = m - r + 1
    BY <1>6 DEF Parted
  <2>2. s # <<>>
    BY <1>8, <2>1, EmptySeq
  <2> QED BY <2>1, <2>2
<1>14. left \in Seq(Nat) /\ (p > 0 => left = PartOf(o, r, p))
  BY <1>13, HeadTailProperties, EmptySeq
<1>15. scan' \in ScanRecord /\ scan'.kind = "after" /\ scan'.after = scan.after
       /\ scan'.position = p /\ scan'.leftover = left /\ scan'.found = found /\ scan'.phase = phase
  <2>1. found \in Seq(Seq(Nat))
    <3>1. q + x \in Nat
      BY <1>8, <1>9
    <3> QED BY <1>8, <1>11, <3>1, LinesAreLines
  <2>2. phase \in {"yielding", "scanning"}
    OBVIOUS
  <2> HIDE DEF found, phase, left
  <2> QED BY <1>1, <1>2, <1>4, <1>14, <2>1, <2>2 DEF ScanRecord
<1>16. CASE phase = "scanning"
  <2>1. older = {} /\ left # <<>>
    BY <1>16
  <2>2. p > 0
    BY <2>1
  <2>3. q = r /\ x = 0 /\ left = PartOf(o, r, p)
    BY <1>7, <1>9, <1>14, <2>1, <2>2
  <2>4. q + x = r
    BY <1>8, <2>3
  <2>5. found = LinesFrom(o, r, Visible) /\ \A n \in (r + 1)..Visible : n > scan.after
    BY <1>11, <1>12, <2>4
  <2> HIDE DEF found, phase, left
  <2>6. r \in 1..k
    BY <1>8, <1>13
  <2>7. Searching(o, scan', r)
    BY <1>13, <1>15, <2>3, <2>5 DEF Searching
  <2> QED BY <1>2, <1>15, <1>16, <2>6, <2>7 DEF ScanOK
<1>17. CASE phase # "scanning"
  <2>0. phase = "yielding"
    BY <1>17
  <2> DEFINE from == IF q + x <= Visible THEN q + x ELSE Visible
  <2>1. End(scan') = Visible
    BY <1>15 DEF End
  <2>2. from \in Nat /\ from <= Visible /\ from + 0 = from
    BY <1>8, <1>9
  <2>3. found = LinesFrom(o, from, Visible)
    <3>1. q + x \in Nat
      BY <1>8, <1>9
    <3> QED BY <1>8, <1>11, <3>1, NothingBehindLast
  <2>4. \A n \in (from + 1)..Visible : n > scan.after
    <3> SUFFICES ASSUME NEW n \in (from + 1)..Visible PROVE n > scan.after
      OBVIOUS
    <3>1. n \in (q + x + 1)..Visible
      BY <1>8, <1>9
    <3> QED BY <1>12, <3>1
  <2> HIDE DEF found, phase, left, from
  <2>5. Wanted(scan', from)
    BY <1>15, <2>1, <2>2, <2>4 DEF Wanted
  <2>6. Len(read) = 0 /\ read \in Seq(Nat)
    BY <1>2, EmptySeq
  <2>7. Handing(o, scan', read, from)
    BY <1>15, <2>1, <2>2, <2>3, <2>5, <2>6 DEF Handing
  <2> QED BY <1>15, <2>0, <2>2, <2>7 DEF ScanOK
<1> QED BY <1>16, <1>17

\* The number of lines, and where the last one can be.
LEMMA LinesInFile ==
  ASSUME NEW o, NEW k, Borders(o, k)
  PROVE  /\ k \in Nat \ {0} /\ ledger.lines \in Nat /\ k \in {ledger.lines, ledger.lines + 1}
         /\ (ledger.torn => k = ledger.lines)
         /\ Visible \in Nat /\ Visible <= ledger.lines /\ ledger.lines <= Visible + 1
         /\ o[0] = 0 /\ o[k] = Len(ledger.bytes) + 1 /\ \A n \in 0..k : o[n] \in Nat
<1>1. /\ k \in Nat \ {0} /\ ledger.lines \in Nat /\ k \in {ledger.lines, ledger.lines + 1}
      /\ (ledger.torn => k = ledger.lines) /\ o[0] = 0 /\ o[k] = Len(ledger.bytes) + 1
      /\ \A n \in 0..k : o[n] \in Nat
  BY DEF Borders
<1>2. 1 \in 1..k
  BY <1>1
<1> QED BY <1>1, <1>2, LineNumbered

\* A line is empty only behind the last newline.
LEMMA LineEmpty ==
  ASSUME NEW o, NEW k, Borders(o, k), NEW n \in 1..k
  PROVE  LineOf(o, n) = <<>> <=> n = ledger.lines + 1
<1>0. k \in Nat \ {0} /\ ledger.lines \in Nat /\ k \in {ledger.lines, ledger.lines + 1}
      /\ \A x \in 0..k : o[x] \in Nat
  BY LinesInFile
<1>1. CASE n = ledger.lines + 1
  <2>1. o[n] = o[n - 1] + 1 /\ o[n - 1] \in Nat
    <3>1. n - 1 \in 0..k
      BY <1>0
    <3> QED BY <1>0, <1>1, <3>1 DEF Borders
  <2>2. LineOf(o, n) = <<>>
    BY <2>1 DEF LineOf, PartOf
  <2> QED BY <1>1, <2>2
<1>2. CASE n # ledger.lines + 1
  <2>1. n \in 1..ledger.lines
    BY <1>0, <1>2
  <2> QED BY <1>2, <2>1, LineBroken
<1> QED BY <1>1, <1>2

\* The first of some lines and those behind it.
LEMMA LinesHead ==
  ASSUME NEW o, NEW k, Borders(o, k), NEW a \in Nat, NEW b \in Nat, b <= k, LinesFrom(o, a, b) # <<>>
  PROVE  /\ a < b /\ Head(LinesFrom(o, a, b)) = LineOf(o, a + 1)
         /\ Tail(LinesFrom(o, a, b)) = LinesFrom(o, a + 1, b)
<1> DEFINE s == LinesFrom(o, a, b)
           c == a + 1
           t == LinesFrom(o, c, b)
<1>0. k \in Nat /\ b \in Int
  BY LinesInFile
<1>1. a < b
  <2>1. ~(b <= a)
    BY <1>0, LinesAreLines
  <2> QED BY <2>1
<1>2. s \in Seq(Seq(Nat)) /\ Len(s) = b - a
  <2>1. s \in Seq(Seq(Nat)) /\ Len(s) = IF a <= b THEN b - a ELSE 0
    BY <1>0, LinesAreLines
  <2> QED BY <1>1, <2>1
<1>3. t \in Seq(Seq(Nat)) /\ Len(t) = b - a - 1
  <2>1. c \in Nat /\ c <= b
    BY <1>1
  <2> HIDE DEF c
  <2>2. t \in Seq(Seq(Nat)) /\ Len(t) = IF c <= b THEN b - c ELSE 0
    BY <1>0, <2>1, LinesAreLines
  <2>3. Len(t) = b - c
    BY <2>1, <2>2
  <2>4. b - c = b - a - 1
    BY DEF c
  <2> QED BY <2>2, <2>3, <2>4
<1>4. ASSUME NEW i \in 1..(b - a) PROVE s[i] = LineOf(o, a + i)
  BY DEF LinesFrom
<1>5. ASSUME NEW i \in 1..(b - a - 1) PROVE t[i] = LineOf(o, a + (i + 1))
  <2>1. i \in 1..(b - c) /\ c + i = a + (i + 1)
    OBVIOUS
  <2> HIDE DEF c
  <2> QED BY <2>1 DEF LinesFrom
<1> HIDE DEF s, t, c
<1>6. Head(s) = s[1] /\ 1 \in 1..(b - a)
  BY <1>1
<1>7. Tail(s) \in Seq(Seq(Nat)) /\ Len(Tail(s)) = b - a - 1 /\ \A i \in 1..Len(Tail(s)) : Tail(s)[i] = s[i + 1]
  <2>1. s # <<>>
    BY DEF s
  <2> QED BY <1>2, <2>1, HeadTailProperties
<1>8. ASSUME NEW i \in 1..Len(t) PROVE Tail(s)[i] = t[i]
  <2>1. i + 1 \in 1..(b - a) /\ i \in 1..(b - a - 1)
    BY <1>1, <1>3
  <2>2. Tail(s)[i] = s[i + 1]
    BY <1>7, <2>1
  <2>3. s[i + 1] = LineOf(o, a + (i + 1))
    BY <1>4, <2>1
  <2> QED BY <1>5, <2>1, <2>2, <2>3
<1>9. Tail(s) = t
  BY <1>3, <1>7, <1>8, SeqEqual
<1> QED BY <1>1, <1>4, <1>6, <1>9 DEF s, t, c

\* Only the last line.
LEMMA OnlyTheLast ==
  ASSUME NEW o, NEW n \in Nat \ {0}
  PROVE  LinesFrom(o, n - 1, n) = <<LineOf(o, n)>>
<1> DEFINE b == n - 1
<1>1. n - b = 1 /\ b + 1 = n
  OBVIOUS
<1> HIDE DEF b
<1>2. LinesFrom(o, b, n) = [i \in 1..1 |-> LineOf(o, b + i)]
  BY <1>1 DEF LinesFrom
<1>3. [i \in 1..1 |-> LineOf(o, b + i)] = <<LineOf(o, b + 1)>>
  OBVIOUS
<1>4. LinesFrom(o, b, n) = <<LineOf(o, n)>>
  BY <1>1, <1>2, <1>3
<1> QED BY <1>4 DEF b

\* The last line, found, is all that is handed over.
LEMMA LastIsHanded ==
  ASSUME NEW o, NEW k, Borders(o, k), NEW s, s.kind = "last",
         s.found = IF ledger.lines = 0 THEN <<>> ELSE <<LineOf(o, ledger.lines)>>
  PROVE  \E from \in Nat : Handing(o, s, <<>>, from)
<1> DEFINE n == ledger.lines
           from == IF n = 0 THEN 0 ELSE n - 1
<1>1. n \in Nat /\ End(s) = n /\ n <= k /\ k \in Nat
  BY LinesInFile DEF End
<1>2. from \in Nat /\ from <= n /\ from + 0 = from
  BY <1>1
<1>3. Wanted(s, from)
  BY <1>1, <1>2 DEF Wanted
<1>4. s.found = LinesFrom(o, from, n)
  <2>1. CASE n = 0
    <3>1. LinesFrom(o, 0, 0) = <<>>
      BY <1>1, LinesAreLines
    <3> QED BY <2>1, <3>1
  <2>2. CASE n # 0
    <3> HIDE DEF n
    <3>1. LinesFrom(o, n - 1, n) = <<LineOf(o, n)>>
      BY <1>1, <2>2, OnlyTheLast
    <3> QED BY <2>2, <3>1 DEF n
  <2> QED BY <2>1, <2>2
<1> HIDE DEF from, n
<1>5. <<>> \in Seq(Nat) /\ Len(<<>>) = 0
  BY EmptySeq
<1>6. Handing(o, s, <<>>, from)
  BY <1>1, <1>2, <1>3, <1>4, <1>5 DEF Handing
<1> QED BY <1>2, <1>6

\* One chunk of the scan for the last line.
LEMMA ScanLastKeeps ==
  ASSUME NEW o, NEW k, Borders(o, k), ScanOK(o, k, scan, read), ScanLast
  PROVE  ScanOK(o, k, scan', read)
<1> DEFINE p == scan.position - Min({scan.position, scan.chunk})
           s == Split(Joined(p))
           complete == {i \in 2..Len(s) : s[i] # <<>>}
           found == IF complete = {} THEN <<>> ELSE <<s[Max(complete)]>>
           phase == IF complete = {} THEN "scanning" ELSE "yielding"
           left == Head(s)
           last == ledger.lines
<1>1. /\ scan.kind = "last" /\ scan.phase = "scanning" /\ scan.position > 0
      /\ scan' = [scan EXCEPT !.position = p, !.leftover = left, !.found = found, !.phase = phase]
  BY DEF ScanLast
<1>2. scan \in ScanRecord /\ read = <<>>
  BY <1>1 DEF ScanOK
<1>3. PICK m \in 1..k : Searching(o, scan, m)
  BY <1>1 DEF ScanOK
<1>4. p \in Nat /\ p < scan.position
  <2>1. scan.position \in Nat \ {0} /\ scan.chunk \in Nat \ {0}
    BY <1>1, <1>2 DEF ScanRecord
  <2>2. Min({scan.position, scan.chunk}) \in 1..scan.position
    BY <2>1, MinOfTwo
  <2> QED BY <2>1, <2>2
<1> HIDE DEF p
<1>5. IsRest(o, m, p, Joined(p)) /\ p < o[m]
  <2>1. scan.position \in Nat
    BY <1>2 DEF ScanRecord
  <2> QED BY <1>3, <1>4, <2>1, JoinedIsRest DEF Searching
<1>6. PICK r : Parted(o, m, p, s, r)
  BY <1>4, <1>5, SplitParts
<1> HIDE DEF s
<1>7. /\ s \in Seq(Seq(Nat)) /\ r \in 1..m /\ Len(s) = m - r + 1
      /\ o[r - 1] <= p /\ p < o[r] /\ s[1] = PartOf(o, r, p)
      /\ \A x \in 2..Len(s) : s[x] = LineOf(o, r + x - 1)
  BY <1>6 DEF Parted
<1>8. /\ last \in Nat /\ k \in Nat /\ m \in Nat /\ m <= k /\ k <= last + 1 /\ last <= k /\ last <= m
      /\ r \in 1..k /\ r <= m
  <2>1. last \in Nat /\ k \in Nat /\ k \in {last, last + 1}
    BY LinesInFile
  <2>2. last <= m
    BY <1>1, <1>3 DEF Searching
  <2> HIDE DEF last
  <2> QED BY <1>7, <2>1, <2>2
<1>9. left = PartOf(o, r, p) /\ left \in Seq(Nat)
  <2>1. Len(s) # 0
    BY <1>7, <1>8
  <2>2. s # <<>>
    BY <2>1, EmptySeq
  <2> QED BY <1>7, <2>2, HeadTailProperties
<1>10. ASSUME NEW i \in 2..Len(s)
       PROVE  s[i] = LineOf(o, r + i - 1) /\ r + i - 1 \in 1..k /\ (i \in complete <=> r + i - 1 <= last)
  <2> DEFINE n == r + i - 1
  <2>1. n \in 1..k /\ n \in Nat
    BY <1>7, <1>8
  <2>2. s[i] = LineOf(o, n)
    BY <1>7
  <2> HIDE DEF n
  <2>3. s[i] = <<>> <=> n = last + 1
    BY <2>1, <2>2, LineEmpty
  <2>4. n = last + 1 <=> ~(n <= last)
    BY <1>8, <2>1
  <2>5. i \in complete <=> n <= last
    BY <2>3, <2>4
  <2> QED BY <2>1, <2>2, <2>5 DEF n
<1>11. complete \in SUBSET (2..Len(s))
  OBVIOUS
<1>12. /\ scan' \in [kind : {"after", "last"}, after : Nat, chunk : Nat \ {0}, position : Nat,
                     leftover : Seq(Nat), found : {found}, phase : {phase}]
       /\ scan'.kind = "last"
       /\ scan'.position = p /\ scan'.leftover = left /\ scan'.found = found /\ scan'.phase = phase
  <2> HIDE DEF found, phase, left, complete
  <2> QED BY <1>1, <1>2, <1>4, <1>9 DEF ScanRecord
<1> HIDE DEF complete
<1>13. CASE last <= r
  <2>1. complete = {}
    <3> SUFFICES ASSUME NEW i \in complete PROVE FALSE
      OBVIOUS
    <3>1. i \in 2..Len(s) /\ r + i - 1 <= last
      BY <1>10, <1>11
    <3> QED BY <1>8, <1>13, <3>1
  <2>2. found = <<>> /\ phase = "scanning"
    BY <2>1
  <2>3. scan' \in ScanRecord
    BY <1>12, <2>2, EmptySeq DEF ScanRecord
  <2> HIDE DEF found, phase, left
  <2>4. Searching(o, scan', r)
    BY <1>7, <1>9, <1>12, <1>13, <2>2 DEF Searching
  <2> QED BY <1>2, <1>8, <1>12, <2>2, <2>3, <2>4 DEF ScanOK
<1>14. CASE ~(last <= r)
  <2> DEFINE i == last - r + 1
  <2>1. i \in 2..Len(s) /\ r + i - 1 = last /\ last \in 1..k
    <3>1. last \in Nat /\ r \in Nat /\ 1 <= r /\ r < last /\ last <= m /\ m \in Nat /\ last <= k /\ k \in Nat
      BY <1>8, <1>14
    <3> HIDE DEF last
    <3>2. r + i - 1 = last /\ last \in 1..k
      BY <3>1
    <3>3. i \in Nat /\ 2 <= i /\ i <= m - r + 1
      BY <3>1
    <3>4. i \in 2..(m - r + 1)
      BY <3>1, <3>3
    <3> QED BY <1>7, <3>2, <3>4
  <2>2. i \in complete /\ s[i] = LineOf(o, last)
    <3> HIDE DEF i
    <3>1. r + i - 1 <= last
      BY <1>8, <2>1
    <3> QED BY <1>10, <2>1, <3>1
  <2>3. \A j \in complete : j <= i
    <3> SUFFICES ASSUME NEW j \in complete PROVE j <= i
      OBVIOUS
    <3>1. j \in 2..Len(s) /\ r + j - 1 <= last
      BY <1>10, <1>11
    <3> QED BY <1>8, <3>1
  <2>4. Max(complete) = i
    <3> HIDE DEF i
    <3>1. complete \in SUBSET Nat
      BY <1>11
    <3> QED BY <2>2, <2>3, <3>1, GreatestIsMax
  <2> HIDE DEF i
  <2>5. found = <<LineOf(o, last)>> /\ phase = "yielding"
    BY <2>2, <2>4
  <2>6. LineOf(o, last) \in Seq(Nat)
    BY <1>7, <2>1, <2>2, ElementOfSeq
  <2>7. scan' \in ScanRecord
    <3>1. <<LineOf(o, last)>> \in Seq(Seq(Nat))
      BY <2>6
    <3> QED BY <1>12, <2>5, <3>1 DEF ScanRecord
  <2> HIDE DEF found, phase, left
  <2>8. last # 0
    BY <2>1
  <2>9. \E from \in Nat : Handing(o, scan', <<>>, from)
    <3>1. scan'.kind = "last" /\ scan'.found = IF last = 0 THEN <<>> ELSE <<LineOf(o, last)>>
      BY <1>12, <2>5, <2>8
    <3>2. ASSUME NEW t, t = scan' PROVE \E from \in Nat : Handing(o, t, <<>>, from)
      BY <3>1, <3>2, LastIsHanded
    <3> QED BY <3>2
  <2> QED BY <1>2, <1>12, <2>5, <2>7, <2>9 DEF ScanOK
<1> QED BY <1>13, <1>14

\* The whole file was scanned.
LEMMA AtStartKeeps ==
  ASSUME NEW o, NEW k, Borders(o, k), ScanOK(o, k, scan, read), AtStart
  PROVE  ScanOK(o, k, scan', read)
<1> DEFINE found == IF scan.kind = "last" /\ scan.leftover # <<>> THEN <<scan.leftover>> ELSE scan.found
           last == ledger.lines
<1>1. /\ scan.phase = "scanning" /\ scan.position = 0
      /\ scan' = [scan EXCEPT !.phase = "yielding", !.found = found]
  BY DEF AtStart
<1>2. scan \in ScanRecord /\ read = <<>>
  BY <1>1 DEF ScanOK
<1>3. PICK m \in 1..k : Searching(o, scan, m)
  BY <1>1 DEF ScanOK
<1>4. /\ k \in Nat \ {0} /\ last \in Nat /\ k \in {last, last + 1} /\ Visible \in Nat /\ Visible <= k
      /\ o[0] = 0 /\ \A n \in 0..k : o[n] \in Nat
  <2>1. /\ k \in Nat \ {0} /\ last \in Nat /\ k \in {last, last + 1} /\ Visible \in Nat /\ Visible <= last
        /\ o[0] = 0 /\ \A n \in 0..k : o[n] \in Nat
    BY LinesInFile
  <2> HIDE DEF last
  <2> QED BY <2>1
<1>5. m = 1
  <2>1. m - 1 \in 0..k /\ 0 \in 0..k /\ (m = 1 \/ 0 < m - 1)
    BY <1>4
  <2>2. m = 1 \/ o[0] < o[m - 1]
    BY <2>1, BordersGrow
  <2>3. o[m - 1] <= 0 /\ o[m - 1] \in Nat
    BY <1>1, <1>3, <1>4, <2>1 DEF Searching
  <2> QED BY <1>4, <2>2, <2>3
<1>6. scan.leftover = LineOf(o, 1)
  <2>1. scan.leftover = PartOf(o, 1, 0)
    BY <1>1, <1>3, <1>5 DEF Searching
  <2>2. o[1 - 1] = 0
    BY <1>4
  <2> QED BY <2>1, <2>2 DEF LineOf
<1>7. found \in Seq(Seq(Nat)) /\ scan.kind \in {"after", "last"}
  <2>1. scan.leftover \in Seq(Nat) /\ scan.found \in Seq(Seq(Nat)) /\ scan.kind \in {"after", "last"}
    BY <1>2 DEF ScanRecord
  <2>2. <<scan.leftover>> \in Seq(Seq(Nat))
    BY <2>1
  <2> QED BY <2>1, <2>2
<1> HIDE DEF found
<1>8. scan' \in ScanRecord /\ scan'.kind = scan.kind /\ scan'.after = scan.after
      /\ scan'.found = found /\ scan'.phase = "yielding"
  BY <1>1, <1>2, <1>7 DEF ScanRecord
<1>9. \E from \in Nat : Handing(o, scan', <<>>, from)
  <2>1. CASE scan.kind = "last"
    <3>1. last <= 1 /\ scan.found = <<>>
      BY <1>3, <1>5, <2>1 DEF Searching
    <3>2. 1 \in 1..k
      BY <1>4
    <3>3. LineOf(o, 1) = <<>> <=> 1 = last + 1
      BY <3>2, LineEmpty
    <3>4. found = IF last = 0 THEN <<>> ELSE <<LineOf(o, last)>>
      <4> HIDE DEF last
      <4>1. last = 0 \/ last = 1
        BY <1>4, <3>1
      <4>2. CASE last = 0
        <5>1. scan.leftover = <<>>
          BY <1>6, <3>3, <4>2
        <5> QED BY <3>1, <4>2, <5>1 DEF found
      <4>3. CASE last = 1
        <5>1. scan.leftover = LineOf(o, last) /\ scan.leftover # <<>>
          BY <1>6, <3>3, <4>3
        <5> QED BY <2>1, <4>3, <5>1 DEF found
      <4> QED BY <4>1, <4>2, <4>3
    <3>5. ASSUME NEW t, t = scan' PROVE \E from \in Nat : Handing(o, t, <<>>, from)
      <4>1. t.kind = "last" /\ t.found = IF ledger.lines = 0 THEN <<>> ELSE <<LineOf(o, ledger.lines)>>
        BY <1>8, <2>1, <3>4, <3>5
      <4> QED BY <4>1, LastIsHanded
    <3> QED BY <3>5
  <2>2. CASE scan.kind = "after"
    <3> DEFINE from == IF 1 <= Visible THEN 1 ELSE Visible
    <3>1. found = LinesFrom(o, 1, Visible) /\ \A n \in 2..Visible : n > scan.after
      BY <1>3, <1>5, <2>2 DEF Searching, found
    <3>2. from \in Nat /\ from <= Visible /\ from + 0 = from
      BY <1>4
    <3>3. found = LinesFrom(o, from, Visible)
      BY <1>4, <3>1, NothingBehindLast
    <3>4. \A n \in (from + 1)..Visible : n > scan.after
      <4> SUFFICES ASSUME NEW n \in (from + 1)..Visible PROVE n > scan.after
        OBVIOUS
      <4>1. n \in 2..Visible
        BY <1>4
      <4> QED BY <3>1, <4>1
    <3>5. End(scan') = Visible
      BY <1>8, <2>2 DEF End
    <3> HIDE DEF from
    <3>6. Wanted(scan', from)
      BY <1>8, <2>2, <3>2, <3>4, <3>5 DEF Wanted
    <3>7. Len(<<>>) = 0 /\ <<>> \in Seq(Nat)
      BY EmptySeq
    <3>8. Handing(o, scan', <<>>, from)
      BY <1>8, <3>2, <3>3, <3>5, <3>6, <3>7 DEF Handing
    <3> QED BY <3>2, <3>8
  <2> QED BY <1>7, <2>1, <2>2
<1> QED BY <1>2, <1>8, <1>9 DEF ScanOK

\* The next line is handed over, or it is torn.
LEMMA YieldLineKeeps ==
  ASSUME NEW o, NEW k, Borders(o, k), ScanOK(o, k, scan, read), YieldLine
  PROVE  ScanOK(o, k, scan', read')
<1> DEFINE line == Head(scan.found)
<1>1. scan \in ScanRecord /\ scan.phase = "yielding" /\ scan.found # <<>>
  BY DEF YieldLine, ScanOK
<1>2. PICK from \in Nat : Handing(o, scan, read, from)
  BY <1>1 DEF ScanOK
<1> DEFINE a == from + Len(read)
           b == End(scan)
<1>3. /\ Wanted(scan, from) /\ read \in Seq(Nat) /\ a <= b /\ scan.found = LinesFrom(o, a, b)
      /\ \A i \in 1..Len(read) : read[i] = from + i /\ ~(ledger.torn /\ read[i] = ledger.lines)
  BY <1>2 DEF Handing
<1>4. a \in Nat /\ b \in Nat /\ b <= k /\ b <= ledger.lines /\ Len(read) \in Nat /\ ledger.lines \in Nat
  <2>1. Len(read) \in Nat
    BY <1>3, LenProperties
  <2>2. k \in Nat /\ ledger.lines \in Nat /\ ledger.lines <= k /\ Visible \in Nat /\ Visible <= ledger.lines
    BY LinesInFile
  <2> QED BY <2>1, <2>2 DEF End
<1>5. a < b /\ line = LineOf(o, a + 1) /\ Tail(scan.found) = LinesFrom(o, a + 1, b)
  <2>1. LinesFrom(o, a, b) # <<>>
    BY <1>1, <1>3
  <2> HIDE DEF a, b
  <2>2. a < b /\ Head(LinesFrom(o, a, b)) = LineOf(o, a + 1) /\ Tail(LinesFrom(o, a, b)) = LinesFrom(o, a + 1, b)
    BY <1>4, <2>1, LinesHead
  <2> QED BY <1>3, <2>2
<1> DEFINE c == a + 1
<1>6. c \in 1..ledger.lines /\ c \in Nat /\ c <= b /\ c = from + (Len(read) + 1)
  <2> HIDE DEF b
  <2> QED BY <1>4, <1>5
<1>7. line = LineOf(o, c) /\ Tail(scan.found) = LinesFrom(o, c, b)
  BY <1>5
<1> HIDE DEF a, c, line
<1>8. line[1] = c /\ (Broken(line) <=> ledger.torn /\ c = ledger.lines)
  BY <1>6, <1>7, LineBroken
<1>9. CASE Broken(line)
  <2>1. scan' = [scan EXCEPT !.phase = "failed"] /\ read' = read
    BY <1>9 DEF YieldLine, line
  <2>2. scan' \in ScanRecord /\ scan'.kind = scan.kind /\ scan'.after = scan.after
        /\ scan'.found = scan.found /\ scan'.phase = "failed"
    BY <1>1, <2>1 DEF ScanRecord
  <2>3. Handing(o, scan', read, from)
    <3>1. End(scan') = End(scan)
      BY <2>2 DEF End
    <3>2. Wanted(scan', from)
      BY <1>3, <2>2, <3>1 DEF Wanted
    <3> QED BY <1>2, <2>2, <3>1, <3>2 DEF Handing
  <2> QED BY <1>8, <1>9, <2>1, <2>2, <2>3 DEF ScanOK
<1>10. CASE ~Broken(line)
  <2>1. scan' = [scan EXCEPT !.found = Tail(scan.found)] /\ read' = Append(read, c)
    BY <1>8, <1>10 DEF YieldLine, line
  <2>2. scan' \in ScanRecord /\ scan'.kind = scan.kind /\ scan'.after = scan.after
        /\ scan'.found = Tail(scan.found) /\ scan'.phase = "yielding"
    <3>1. scan.found \in Seq(Seq(Nat))
      BY <1>1 DEF ScanRecord
    <3>2. Tail(scan.found) \in Seq(Seq(Nat))
      BY <1>1, <3>1, HeadTailProperties
    <3> QED BY <1>1, <2>1, <3>2 DEF ScanRecord
  <2>3. End(scan') = b
    BY <2>2 DEF End
  <2>4. Wanted(scan', from)
    BY <1>3, <2>2, <2>3 DEF Wanted
  <2>5. /\ read' \in Seq(Nat) /\ Len(read') = Len(read) + 1 /\ read'[Len(read) + 1] = c
        /\ \A i \in 1..Len(read) : read'[i] = read[i]
    BY <1>3, <1>6, <2>1, AppendProperties
  <2>6. from + Len(read') = c
    BY <1>6, <2>5
  <2>7. ASSUME NEW i \in 1..Len(read')
        PROVE  read'[i] = from + i /\ ~(ledger.torn /\ read'[i] = ledger.lines)
    <3>1. CASE i = Len(read) + 1
      <4>1. read'[i] = c
        BY <2>5, <3>1
      <4> QED BY <1>6, <1>8, <1>10, <3>1, <4>1
    <3>2. CASE i # Len(read) + 1
      <4>1. i \in 1..Len(read)
        BY <1>4, <2>5, <3>2
      <4> QED BY <1>3, <2>5, <4>1
    <3> QED BY <3>1, <3>2
  <2> HIDE DEF b
  <2>8. Handing(o, scan', read', from)
    BY <1>6, <1>7, <2>2, <2>3, <2>4, <2>5, <2>6, <2>7 DEF Handing
  <2> QED BY <2>2, <2>8 DEF ScanOK
<1> QED BY <1>9, <1>10

\* The scan ends when there is no line left.
LEMMA EndScanKeeps ==
  ASSUME NEW o, NEW k, ScanOK(o, k, scan, read), EndScan
  PROVE  ScanOK(o, k, scan', read)
<1>1. scan \in ScanRecord /\ scan.phase = "yielding" /\ scan.found = <<>> /\ scan' = [scan EXCEPT !.phase = "done"]
  BY DEF EndScan, ScanOK
<1>2. PICK from \in Nat : Handing(o, scan, read, from)
  BY <1>1 DEF ScanOK
<1>3. scan' \in ScanRecord /\ scan'.kind = scan.kind /\ scan'.after = scan.after
      /\ scan'.found = scan.found /\ scan'.phase = "done"
  BY <1>1 DEF ScanRecord
<1>4. End(scan') = End(scan)
  BY <1>3 DEF End
<1>5. Wanted(scan', from)
  BY <1>2, <1>3, <1>4 DEF Handing, Wanted
<1>6. Handing(o, scan', read, from)
  BY <1>2, <1>3, <1>4, <1>5 DEF Handing
<1> QED BY <1>1, <1>3, <1>6 DEF ScanOK

\* A scan begins behind the last byte.
LEMMA ScanIndInvInit ==
  ASSUME AnyScanInit
  PROVE  ScanIndInv
<1>1. PICK widths \in SeqOf(1..MaxWidth, MaxLines), mark \in {"newline", "none", "torn"} :
        /\ mark # "newline" => widths # <<>>
        /\ \E number \in IF mark = "torn" THEN Numbers ELSE {"whole"},
              kind \in {"after", "last"}, after \in 0..Len(widths), chunk \in 2..MaxChunk :
              /\ kind = "last" => after = 0
              /\ ScanInit(widths, mark, number, kind, after, chunk)
  BY DEF AnyScanInit
<1>2. PICK number \in IF mark = "torn" THEN Numbers ELSE {"whole"},
           kind \in {"after", "last"}, after \in 0..Len(widths), chunk \in 2..MaxChunk :
              ScanInit(widths, mark, number, kind, after, chunk)
  BY <1>1
<1> DEFINE n == Len(widths)
<1>3. n \in Nat /\ widths \in [1..n -> Nat \ {0}] /\ (mark # "newline" => n # 0)
  <2>1. PICK j \in 0..MaxLines : widths \in [1..j -> 1..MaxWidth]
    BY DEF SeqOf
  <2>2. MaxLines \in Nat /\ MaxWidth \in Nat
    BY ScanAssumption
  <2>3. j \in Nat /\ widths \in [1..j -> Nat \ {0}]
    BY <2>1, <2>2
  <2>4. n = j /\ widths \in Seq(Nat \ {0})
    BY <2>3, SequenceOfLength
  <2>5. widths # <<>> => n # 0
    BY <2>4, EmptySeq
  <2> QED BY <1>1, <2>3, <2>4, <2>5
<1>4. /\ ledger = [bytes |-> IF mark = "newline" THEN Bytes(widths) ELSE Front(Bytes(widths)),
                   lines |-> n, torn |-> mark = "torn", number |-> number]
      /\ scan = [kind |-> kind, after |-> after, chunk |-> chunk, position |-> Len(ledger.bytes),
                 leftover |-> <<>>, found |-> <<>>, phase |-> "scanning"]
      /\ read = <<>>
  BY <1>2 DEF ScanInit
<1> HIDE DEF n
<1>5. /\ ledger.bytes = IF mark = "newline" THEN Bytes(widths) ELSE Front(Bytes(widths))
      /\ ledger.lines = n /\ (ledger.torn => mark # "newline")
  BY <1>4
<1>6. PICK o, k : Borders(o, k)
  BY <1>3, <1>5, FileHasBorders
<1>7. /\ k \in Nat \ {0} /\ ledger.lines \in Nat /\ k \in {ledger.lines, ledger.lines + 1}
      /\ Visible \in Nat /\ Visible <= ledger.lines /\ o[k] = Len(ledger.bytes) + 1
  BY <1>6, LinesInFile
<1>8. ledger.bytes \in Seq(Nat) /\ Len(ledger.bytes) \in Nat
  BY <1>6, LenProperties DEF Borders
<1>9. k \in 1..k /\ k - 1 \in 0..k /\ k - 1 < k /\ ledger.lines <= k /\ Visible <= k
  BY <1>7
<1>10. o[k - 1] <= Len(ledger.bytes) /\ Len(ledger.bytes) < o[k]
  <2>1. o[k - 1] < o[k] /\ o[k - 1] \in Nat
    BY <1>6, <1>9 DEF Borders
  <2> QED BY <1>7, <1>8, <2>1
<1>11. PartOf(o, k, Len(ledger.bytes)) = <<>>
  <2>1. 1..(o[k] - Len(ledger.bytes) - 1) = {}
    BY <1>7, <1>8
  <2> QED BY <2>1 DEF PartOf
<1>12. LinesFrom(o, k, Visible) = <<>> /\ \A j \in (k + 1)..Visible : FALSE
  <2>1. k \in Nat /\ Visible \in Int
    BY <1>7
  <2>2. LinesFrom(o, k, Visible) = <<>>
    BY <1>6, <1>9, <2>1, LinesAreLines
  <2> QED BY <1>7, <1>9, <2>2
<1>13. scan \in ScanRecord
  <2>1. after \in Nat /\ chunk \in Nat \ {0} /\ <<>> \in Seq(Nat) /\ <<>> \in Seq(Seq(Nat))
    <3>1. MaxChunk \in Nat
      BY ScanAssumption
    <3> QED BY <1>3, <3>1, EmptySeq
  <2> QED BY <1>4, <1>8, <2>1 DEF ScanRecord
<1>14. /\ scan.position = Len(ledger.bytes) /\ scan.leftover = <<>> /\ scan.found = <<>>
       /\ scan.phase = "scanning"
  BY <1>4
<1>15. Searching(o, scan, k)
  BY <1>9, <1>10, <1>11, <1>12, <1>14 DEF Searching
<1>16. ScanOK(o, k, scan, read)
  BY <1>4, <1>9, <1>13, <1>14, <1>15 DEF ScanOK
<1> QED BY <1>6, <1>16 DEF ScanIndInv

\* Every step of a scan keeps the invariant.
LEMMA ScanIndInvNext ==
  ASSUME ScanIndInv, [ScanNext]_scanVars
  PROVE  ScanIndInv'
<1>1. PICK o, k : Borders(o, k) /\ ScanOK(o, k, scan, read)
  BY DEF ScanIndInv
<1>2. ledger' = ledger
  BY DEF ScanNext, ScanAfter, ScanLast, AtStart, YieldLine, EndScan, scanVars
<1>3. ScanOK(o, k, scan', read')
  <2>1. CASE ScanAfter
    <3>1. read' = read
      BY <2>1 DEF ScanAfter
    <3> QED BY <1>1, <2>1, <3>1, ScanAfterKeeps
  <2>2. CASE ScanLast
    <3>1. read' = read
      BY <2>2 DEF ScanLast
    <3> QED BY <1>1, <2>2, <3>1, ScanLastKeeps
  <2>3. CASE AtStart
    <3>1. read' = read
      BY <2>3 DEF AtStart
    <3> QED BY <1>1, <2>3, <3>1, AtStartKeeps
  <2>4. CASE YieldLine
    BY <1>1, <2>4, YieldLineKeeps
  <2>5. CASE EndScan
    <3>1. read' = read
      BY <2>5 DEF EndScan
    <3> QED BY <1>1, <2>5, <3>1, EndScanKeeps
  <2>6. CASE UNCHANGED scanVars
    <3>1. scan' = scan /\ read' = read
      BY <2>6 DEF scanVars
    <3> QED BY <1>1, <3>1
  <2> QED BY <2>1, <2>2, <2>3, <2>4, <2>5, <2>6 DEF ScanNext
<1>4. Borders(o, k)'
  BY <1>1, <1>2 DEF Borders
<1>5. ScanOK(o, k, scan, read)'
  <2>1. Visible' = Visible /\ End(scan)' = End(scan')
    BY <1>2 DEF End, Visible
  <2>2. ASSUME NEW m PROVE Searching(o, scan', m) => Searching(o, scan, m)'
    <3>1. /\ PartOf(o, m, scan.position)' = PartOf(o, m, scan'.position)
          /\ LinesFrom(o, m, Visible)' = LinesFrom(o, m, Visible)
      BY <2>1 DEF PartOf, LinesFrom
    <3> QED BY <1>2, <2>1, <3>1 DEF Searching
  <2>3. ASSUME NEW from PROVE Handing(o, scan', read', from) => Handing(o, scan, read, from)'
    <3>1. Wanted(scan', from) => Wanted(scan, from)'
      BY <1>2, <2>1 DEF Wanted
    <3> QED BY <1>2, <2>1, <3>1 DEF Handing
  <2>4. /\ scan' \in ScanRecord
        /\ scan'.phase = "scanning" => read' = <<>> /\ \E m \in 1..k : Searching(o, scan', m)
        /\ scan'.phase # "scanning" => \E from \in Nat : Handing(o, scan', read', from)
        /\ scan'.phase = "done" => scan'.found = <<>>
        /\ scan'.phase = "failed" => ledger.torn
    BY <1>3 DEF ScanOK
  <2>5. /\ ScanRecord' = ScanRecord
        /\ scan'.phase = "scanning" => \E m \in 1..k : Searching(o, scan, m)'
        /\ scan'.phase # "scanning" => \E from \in Nat : Handing(o, scan, read, from)'
    BY <2>2, <2>3, <2>4 DEF ScanRecord
  <2> QED BY <1>2, <2>4, <2>5 DEF ScanOK
<1> QED BY <1>4, <1>5 DEF ScanIndInv

\* The invariant tells the lines that were read.
LEMMA ScanIndInvTail ==
  ASSUME ScanIndInv
  PROVE  ScanReadsTheTail
<1>1. PICK o, k : Borders(o, k) /\ ScanOK(o, k, scan, read)
  BY DEF ScanIndInv
<1> DEFINE last == ledger.lines
<1>2. /\ k \in Nat \ {0} /\ last \in Nat /\ k \in {last, last + 1} /\ (ledger.torn => k = last)
      /\ Visible \in Nat /\ Visible <= last
  BY <1>1, LinesInFile
<1>3. /\ scan \in ScanRecord /\ scan.kind \in {"after", "last"}
      /\ scan.phase \in {"scanning", "yielding", "done", "failed"}
      /\ (scan.phase = "done" => scan.found = <<>>) /\ (scan.phase = "failed" => ledger.torn)
  BY <1>1 DEF ScanOK, ScanRecord
<1> HIDE DEF last
<1>4. CASE scan.phase = "scanning"
  <2>1. read = <<>>
    BY <1>1, <1>4 DEF ScanOK
  <2>2. \A i \in 1..Len(read) : FALSE
    BY <2>1, EmptySeq
  <2> QED BY <1>4, <2>1, <2>2 DEF ScanReadsTheTail
<1>5. CASE scan.phase # "scanning"
  <2>1. PICK from \in Nat : Handing(o, scan, read, from)
    BY <1>1, <1>5 DEF ScanOK
  <2> DEFINE end == End(scan)
             n == Len(read)
  <2>2. /\ read \in Seq(Nat) /\ n \in Nat /\ from + n <= end /\ from <= end
        /\ \A i \in 1..n : read[i] = from + i /\ ~(ledger.torn /\ read[i] = last)
        /\ scan.found = LinesFrom(o, from + n, end)
        /\ (scan.kind = "after" => end = Visible /\ \A j \in (from + 1)..end : j > scan.after)
        /\ (scan.kind = "last" => end = last /\ from = IF last = 0 THEN 0 ELSE last - 1)
    BY <1>3, <2>1, LenProperties DEF Handing, Wanted, End, last
  <2>3. end \in Nat /\ end <= last
    BY <1>2, <1>3, <2>2
  <2> HIDE DEF end, n
  <2>4. ASSUME NEW i \in 1..n
        PROVE  read[i] \in WholeLines /\ read[i] \in (from + 1)..end
    <3>1. read[i] = from + i /\ ~(ledger.torn /\ read[i] = last)
      BY <2>2
    <3> DEFINE j == read[i]
    <3>2. j \in (from + 1)..end /\ j \in 1..last
      BY <1>2, <2>2, <2>3, <3>1
    <3>3. ledger.torn => j # last
      BY <3>1
    <3> HIDE DEF j
    <3>4. j \in 1..(IF ledger.torn THEN last - 1 ELSE last)
      BY <1>2, <3>2, <3>3
    <3> QED BY <3>2, <3>4 DEF WholeLines, j, last
  <2>5. ASSUME NEW i \in 1..n PROVE read[i] \in Asked
    <3>1. CASE scan.kind = "after"
      BY <2>2, <2>4, <3>1 DEF Asked
    <3>2. CASE scan.kind = "last"
      <4>1. last # 0 /\ from = last - 1 /\ end = last
        <5>1. end = last /\ from = IF last = 0 THEN 0 ELSE last - 1
          BY <2>2, <3>2
        <5>2. last # 0
          BY <1>2, <2>2, <5>1
        <5> QED BY <5>1, <5>2
      <4>2. read[i] = last
        BY <1>2, <2>4, <4>1
      <4> QED BY <2>4, <3>2, <4>2 DEF Asked, last
    <3> QED BY <1>3, <3>1, <3>2
  <2>6. ASSUME NEW i \in 1..n, i > 1 PROVE read[i] = read[i - 1] + 1
    <3>1. i - 1 \in 1..n
      BY <2>2, <2>6
    <3>2. read[i] = from + i /\ read[i - 1] = from + (i - 1)
      BY <2>2, <3>1
    <3> QED BY <3>2
  <2>7. ASSUME scan.phase = "done" PROVE from + n = end
    <3>1. LinesFrom(o, from + n, end) = <<>>
      BY <1>3, <2>2, <2>7
    <3> DEFINE a == from + n
    <3>2. a \in Nat /\ a <= end /\ LinesFrom(o, a, end) = <<>> /\ end <= k /\ end \in Int
      BY <1>2, <2>2, <2>3, <3>1
    <3> HIDE DEF a
    <3>3. Len(LinesFrom(o, a, end)) = IF a <= end THEN end - a ELSE 0
      BY <1>1, <3>2, LinesAreLines
    <3>4. Len(LinesFrom(o, a, end)) = 0
      BY <3>2, EmptySeq
    <3>5. a = end
      BY <2>3, <3>2, <3>3, <3>4
    <3> QED BY <3>5 DEF a
  <2>8. ASSUME scan.phase = "done", read # <<>>
        PROVE  Last(read) \in WholeLines /\ Last(read) + 1 \notin WholeLines
    <3>1. n \in 1..n
      <4>1. n # 0
        BY <2>2, <2>8, EmptySeq DEF n
      <4> QED BY <2>2, <4>1
    <3>2. Last(read) = read[n] /\ read[n] = end
      BY <2>2, <2>7, <2>8, <3>1 DEF Last, n
    <3>3. end \in WholeLines
      BY <2>4, <3>1, <3>2
    <3>4. end + 1 \notin WholeLines
      <4>1. CASE end = last
        BY <1>2, <4>1 DEF WholeLines, last
      <4>2. CASE end # last
        <5>1. end = Visible /\ Visible # last
          BY <1>3, <2>2, <4>2
        <5>2. ledger.torn /\ Visible = last - 1
          BY <5>1 DEF Visible, last
        <5>3. end + 1 = last
          BY <1>2, <5>1, <5>2
        <5> QED BY <1>2, <5>2, <5>3 DEF WholeLines, last
      <4> QED BY <4>1, <4>2
    <3> QED BY <3>2, <3>3, <3>4
  <2>9. ASSUME scan.kind = "last", scan.phase = "done"
        PROVE  ToSet(read) = Asked /\ ~ledger.torn
    <3>1. from + n = last /\ end = last /\ from = IF last = 0 THEN 0 ELSE last - 1
      BY <2>2, <2>7, <2>9
    <3>2. CASE last = 0
      <4>1. n = 0 /\ ~ledger.torn
        BY <1>2, <2>2, <3>1, <3>2
      <4>2. read = <<>>
        BY <2>2, <4>1, EmptySeq DEF n
      <4>3. ToSet(read) = {}
        BY <4>2 DEF ToSet
      <4>4. WholeLines = {}
        BY <3>2, <4>1 DEF WholeLines, last
      <4>5. Asked = {}
        BY <2>9, <4>4 DEF Asked
      <4> QED BY <4>1, <4>3, <4>5
    <3>3. CASE last # 0
      <4>1. n = 1
        BY <1>2, <2>2, <3>1, <3>3
      <4>2. read[1] = last /\ ~(ledger.torn /\ read[1] = last)
        <5>1. 1 \in 1..n /\ from + 1 = last
          BY <3>1, <4>1
        <5> QED BY <2>2, <5>1
      <4>3. ToSet(read) = {last}
        <5>1. DOMAIN read = 1..1
          BY <2>2, <4>1, LenProperties DEF n
        <5>2. DOMAIN read = {1}
          BY <5>1
        <5> QED BY <4>2, <5>2 DEF ToSet
      <4>4. Asked = {last}
        <5>1. last \in WholeLines
          BY <1>2, <3>3, <4>2 DEF WholeLines, last
        <5> QED BY <2>9, <5>1 DEF Asked, last
      <4> QED BY <4>2, <4>3, <4>4
    <3> QED BY <3>2, <3>3
  <2> QED BY <1>3, <2>5, <2>6, <2>8, <2>9 DEF ScanReadsTheTail, n
<1> QED BY <1>4, <1>5

\* The inductive invariant of the scans.
THEOREM ScanIndInvHolds == ScanSpec => []ScanIndInv
<1>1. AnyScanInit => ScanIndInv
  BY ScanIndInvInit
<1>2. ScanIndInv /\ [ScanNext]_scanVars => ScanIndInv'
  BY ScanIndInvNext
<1> QED BY <1>1, <1>2, PTL DEF ScanSpec

\* Wherever the chunks divide a file of any length, what a scan hands over are
\* the lines it was asked for, in order and without a gap, up to the last whole one.
THEOREM ScanReadsTheTailHolds == ScanSpec => []ScanReadsTheTail
<1>1. ScanIndInv => ScanReadsTheTail
  BY ScanIndInvTail
<1> QED BY <1>1, ScanIndInvHolds, PTL
=============================================================================
