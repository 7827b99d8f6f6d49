------------------------- MODULE MultiplexersProofs -------------------------
(***************************************************************************)
(* The queue limits, the recovery of throttled broadcasts, the waiters of  *)
(* the blocking ones and the ordered broadcast of the multiplexers, for    *)
(* any processors, observers, limits and numbers of events.  CoreInv       *)
(* relates the mutex to the broadcasts, each channel to its listeners, and *)
(* the list to the open channels; Limits adds to each queue what is past   *)
(* the check, and Awaited gives each sleeping broadcaster its event.       *)
(***************************************************************************)
EXTENDS Multiplexers, SharedLemmas, FiniteSetTheorems, TLAPS

Channel ==
    [queue : Seq(Nat), stream : {"idle", "held", "ended"}, phase : {"open", "draining", "closed"},
     drainers : Seq(Actors), listeners : SUBSET Actors]

UnreadOf(ch) == Len(ch.queue) + (IF ch.stream = "held" THEN 1 ELSE 0)

\* A channel on its own: nothing is queued in a closed one or behind the end of
\* its stream, and whoever listens for its recovery has something to wait for.
Sound(ch, low) ==
    /\ ch \in Channel
    /\ ch.phase = "closed" => ch.queue = <<>>
    /\ ch.stream = "ended" => ch.phase # "open" /\ ch.queue = <<>>
    /\ ch.listeners # {} => ch.phase # "closed" /\ UnreadOf(ch) > low

\* The broadcasts that hold the mutex or have been handed it, and those asleep in it.
Holding == {"checking", "committing", "settling"}
Owners == {a \in Actors : pc[a] \in Holding}
Locking == {a \in Actors : pc[a] = "locking"}

Sinks == Processors \ Producers
Reading == {"running", "asleep", "ready"}
InBroadcast == {"throttled", "admitted", "locking", "checking", "committing", "settling", "waiting"}

\* Who can be where.
Places ==
    /\ \A a \in Actors : pc[a] \in InBroadcast => a \in Producers \cup Sources
    /\ \A a \in Actors : pc[a] \in {"throttled", "admitted"} => Policy("throttle")
    /\ \A a \in Actors : pc[a] = "checking" => Policy("fail-first")
    /\ \A p \in Sinks : pc[p] \in Reading \cup {"failed", "done"}
    /\ \A p \in Readers : pc[p] \in {"asleep", "ready"} => chan[p].stream = "idle"
    /\ \A p \in Readers : chan[p].listeners # {} => Policy("throttle")

\* What the kernel and the list know of the channels.
Lists ==
    /\ \A p \in Processors : chan[p].phase = "open" => p \in kernel.processors
    /\ kernel.stopping => \A p \in kernel.processors : chan[p].phase # "open"
    /\ \A p \in Sinks : pc[p] = "done" => chan[p].phase # "open"
    /\ OnlyKernel => /\ \A p \in Readers : chan[p].phase = "open" => p \in subscribers
                     /\ \A p \in Observers : chan[p].phase # "open"
                     /\ ~kernel.stopping => \A p \in Readers : chan[p].phase # "open" => pc[p] = "done"

PCs ==
    {"running", "asleep", "ready", "looping", "idle", "throttled", "admitted",
     "locking", "checking", "committing", "settling", "waiting", "failed", "done"}

CoreInv ==
    /\ TypeOK /\ Consistent(mutex, Owners, Locking)
    /\ \A p \in Readers : Sound(chan[p], Low)
    /\ Places /\ Lists

\* The next fan-out reaches sink p.
Exposed(p) == p \in subscribers /\ chan[p].phase = "open" /\ pc[p] \in Reading

\* The broadcasts that throttle() let through and that have not committed.
Admitted == {a \in Actors : pc[a] \in {"admitted", "locking", "committing"}}

Bound == HighWaterMark - 1 + Cardinality(Producers \cup Sources)

Limits ==
    \A p \in Sinks :
        /\ Policy("fail-first") =>
              /\ Len(chan[p].queue) <= MaxQueueSize
              /\ Exposed(p) => \A a \in Actors : pc[a] = "committing" => Len(chan[p].queue) < MaxQueueSize
        /\ Policy("throttle") =>
              /\ Len(chan[p].queue) <= Bound
              /\ Exposed(p) => Len(chan[p].queue) + Cardinality(Admitted) <= Bound
-----------------------------------------------------------------------------
\* What the operations of a channel do to it.  enqueue() adds an event to an open one.
LEMMA EnqueueSound ==
    ASSUME NEW low \in Nat, NEW ch, Sound(ch, low), NEW event \in Nat
    PROVE  LET new == Enqueue(ch, event)
           IN  /\ Sound(new, low)
               /\ new.phase = ch.phase /\ new.stream = ch.stream /\ new.listeners = ch.listeners
               /\ new.queue = IF ch.phase = "open" THEN Append(ch.queue, event) ELSE ch.queue
<1> DEFINE queue == Append(ch.queue, event)
           new == [ch EXCEPT !.queue = queue]
<1>1. CASE ch.phase # "open"
  BY <1>1 DEF Enqueue
<1>2. CASE ch.phase = "open"
  <2>1. Enqueue(ch, event) = new
    BY <1>2 DEF Enqueue
  <2>2. /\ queue \in Seq(Nat) /\ Len(queue) = Len(ch.queue) + 1 /\ Len(ch.queue) \in Nat
    BY DEF Sound, Channel
  <2> HIDE DEF queue
  <2>3. /\ new \in Channel /\ new.queue = queue /\ new.phase = ch.phase /\ new.stream = ch.stream
        /\ new.listeners = ch.listeners
    BY <2>2 DEF Sound, Channel
  <2> HIDE DEF new
  <2>4. UnreadOf(new) \in Nat /\ UnreadOf(ch) \in Nat /\ UnreadOf(new) >= UnreadOf(ch)
    <3>1. CASE ch.stream = "held"
      BY <2>2, <2>3, <3>1 DEF UnreadOf
    <3>2. CASE ch.stream # "held"
      BY <2>2, <2>3, <3>2 DEF UnreadOf
    <3> QED
      BY <3>1, <3>2
  <2>5. Sound(new, low)
    BY <1>2, <2>3, <2>4 DEF Sound
  <2> QED
    BY <1>2, <2>1, <2>3, <2>5 DEF queue
<1> QED
  BY <1>1, <1>2

\* close() leaves nothing queued and nobody listening.
LEMMA CloseSound ==
    ASSUME NEW low \in Nat, NEW ch, Sound(ch, low)
    PROVE  /\ Sound(Close(ch), low) /\ Close(ch).phase = "closed" /\ Close(ch).stream = ch.stream
           /\ Close(ch).queue = <<>> /\ Close(ch).listeners = {}
<1>1. <<>> \in Seq(Nat) /\ <<>> \in Seq(Actors)
  OBVIOUS
<1>2. /\ Close(ch) \in Channel /\ Close(ch).phase = "closed" /\ Close(ch).stream = ch.stream
      /\ Close(ch).queue = <<>> /\ Close(ch).listeners = {}
  BY <1>1 DEF Close, Sound, Channel
<1> QED
  BY <1>2 DEF Sound

\* unsubscribe() leaves the channel closed or draining, with its queue or without.
LEMMA UnsubscribeSound ==
    ASSUME NEW low \in Nat, NEW ch, Sound(ch, low), NEW drain
    PROVE  LET new == Unsubscribe(ch, drain)
           IN  /\ Sound(new, low) /\ new.phase # "open" /\ new.stream = ch.stream
               /\ new.queue = IF ClosesAtOnce(ch, drain) THEN <<>> ELSE ch.queue
               /\ new.listeners \subseteq ch.listeners
<1>1. CASE ClosesAtOnce(ch, drain)
  BY <1>1, CloseSound DEF Unsubscribe
<1>2. CASE ~ClosesAtOnce(ch, drain)
  <2> DEFINE new == [ch EXCEPT !.phase = "draining"]
  <2>1. Unsubscribe(ch, drain) = new
    BY <1>2 DEF Unsubscribe
  <2>2. /\ new \in Channel /\ new.queue = ch.queue /\ new.phase = "draining" /\ new.stream = ch.stream
        /\ new.listeners = ch.listeners
    BY DEF Sound, Channel
  <2> HIDE DEF new
  <2>3. Sound(new, low)
    BY <2>2 DEF Sound, UnreadOf
  <2> QED
    BY <1>2, <2>1, <2>2, <2>3
<1> QED
  BY <1>1, <1>2

\* What a turn of the stream makes of a channel: the reader gets the first event
\* of the queue, or none.
Turned(ch, new) ==
    /\ \/ new.stream = "held" /\ ch.queue # <<>> /\ new.queue = Tail(ch.queue)
       \/ new.stream \in {"idle", "ended"} /\ new.queue = ch.queue
    /\ new.phase = ch.phase \/ (ch.phase # "open" /\ new.phase # "open")
    /\ new.listeners \subseteq ch.listeners

\* A turn of the loop of streamEvents().
LEMMA AdvanceSound ==
    ASSUME NEW low \in Nat, NEW ch, Sound(ch, low), ch.stream \in {"idle", "ended"}
    PROVE  Sound(Advance(ch), low) /\ Turned(ch, Advance(ch))
<1> DEFINE queue == Tail(ch.queue)
           ended == [ch EXCEPT !.stream = "ended"]
           next == [ch EXCEPT !.queue = queue, !.stream = "held"]
<1>1. ch \in Channel /\ ch.queue \in Seq(Nat) /\ Len(ch.queue) \in Nat
  BY DEF Sound, Channel
<1>2. /\ ended \in Channel /\ ended.stream = "ended" /\ ended.queue = ch.queue
      /\ ended.phase = ch.phase /\ ended.listeners = ch.listeners
  BY <1>1 DEF Channel
<1>3. CASE ch.phase = "closed"
  <2>1. Advance(ch) = ended
    BY <1>3 DEF Advance
  <2> HIDE DEF ended
  <2>2. ch.queue = <<>> /\ ch.listeners = {}
    BY <1>3 DEF Sound
  <2> QED
    BY <1>2, <1>3, <2>1, <2>2 DEF Sound, Turned
<1>4. CASE ch.phase # "closed" /\ ch.queue # <<>>
  <2>1. Advance(ch) = next
    BY <1>4 DEF Advance
  <2>2. queue \in Seq(Nat) /\ Len(queue) = Len(ch.queue) - 1
    BY <1>1, <1>4
  <2> HIDE DEF queue
  <2>3. /\ next \in Channel /\ next.stream = "held" /\ next.queue = queue
        /\ next.phase = ch.phase /\ next.listeners = ch.listeners
    BY <1>1, <2>2 DEF Channel
  <2> HIDE DEF next
  <2>4. UnreadOf(next) = Len(ch.queue) /\ UnreadOf(ch) = Len(ch.queue)
    <3>1. ch.stream # "held"
      OBVIOUS
    <3> QED
      BY <1>1, <2>2, <2>3, <3>1 DEF UnreadOf
  <2>5. Sound(next, low)
    BY <1>1, <1>4, <2>3, <2>4 DEF Sound
  <2> QED
    BY <1>4, <2>1, <2>3, <2>5 DEF Turned, queue
<1>5. CASE ch.phase = "draining" /\ ch.queue = <<>>
  <2>1. Advance(ch) = ended
    BY <1>5 DEF Advance
  <2> HIDE DEF ended
  <2>2. ch.listeners = {}
    BY <1>5 DEF Sound, UnreadOf
  <2> QED
    BY <1>2, <1>5, <2>1, <2>2 DEF Sound, Turned
<1>6. CASE ch.phase = "open" /\ ch.queue = <<>>
  <2>1. Advance(ch) = ch
    BY <1>6 DEF Advance
  <2> QED
    BY <2>1 DEF Turned
<1> QED
  BY <1>1, <1>3, <1>4, <1>5, <1>6 DEF Channel

\* next() on the stream: what it wakes, and a turn of the loop.
LEMMA PulledSound ==
    ASSUME NEW low \in Nat, NEW ch, Sound(ch, low), ch.stream # "ended"
    PROVE  Sound(Pulled(ch, low), low) /\ Turned(ch, Pulled(ch, low))
<1>1. CASE ClosesOnPull(ch)
  <2> DEFINE closed == Close(ch)
             new == [closed EXCEPT !.stream = "ended"]
  <2>1. Pulled(ch, low) = new /\ ch.phase # "open" /\ ch.queue = <<>>
    BY <1>1 DEF Pulled, ClosesOnPull
  <2>2. Sound(closed, low) /\ closed.phase = "closed" /\ closed.queue = <<>> /\ closed.listeners = {}
    BY CloseSound
  <2> HIDE DEF closed
  <2>3. /\ new \in Channel /\ new.stream = "ended" /\ new.queue = <<>> /\ new.phase = "closed"
        /\ new.listeners = {}
    BY <2>2 DEF Sound, Channel
  <2> HIDE DEF new
  <2> QED
    BY <2>1, <2>3 DEF Sound, Turned
<1>2. CASE ~ClosesOnPull(ch)
  <2> DEFINE ack == Acknowledge(ch, low)
  <2>1. Pulled(ch, low) = Advance(ack)
    BY <1>2 DEF Pulled
  <2>2. /\ Sound(ack, low) /\ ack.stream = "idle" /\ ack.queue = ch.queue /\ ack.phase = ch.phase
        /\ ack.listeners \subseteq ch.listeners
    <3>1. CASE ch.stream # "held"
      BY <3>1 DEF Acknowledge, Sound, Channel
    <3>2. CASE ch.stream = "held"
      <4> DEFINE drainers == IF ch.drainers = <<>> THEN ch.drainers ELSE Tail(ch.drainers)
                 listeners == IF Len(ch.queue) <= low THEN {} ELSE ch.listeners
                 new == [ch EXCEPT !.stream = "idle", !.drainers = drainers, !.listeners = listeners]
      <4>1. ack = new
        BY <3>2 DEF Acknowledge
      <4>2. /\ ch \in Channel /\ Len(ch.queue) \in Nat /\ drainers \in Seq(Actors)
            /\ listeners \subseteq ch.listeners /\ listeners \subseteq Actors
            /\ listeners # {} => Len(ch.queue) > low
        BY DEF Sound, Channel
      <4> HIDE DEF drainers, listeners
      <4>3. /\ new \in Channel /\ new.stream = "idle" /\ new.queue = ch.queue /\ new.phase = ch.phase
            /\ new.listeners = listeners
        BY <4>2 DEF Channel
      <4> HIDE DEF new
      <4>4. Sound(new, low)
        BY <4>2, <4>3 DEF Sound, UnreadOf
      <4> HIDE DEF ack
      <4> QED
        BY <4>1, <4>2, <4>3, <4>4
    <3> QED
      BY <3>1, <3>2
  <2> HIDE DEF ack
  <2>3. Sound(Advance(ack), low) /\ Turned(ack, Advance(ack))
    BY <2>2, AdvanceSound
  <2> QED
    BY <2>1, <2>2, <2>3 DEF Turned
<1> QED
  BY <1>1, <1>2

\* A broadcaster that goes to sleep in a channel, or listens for its recovery.
LEMMA WaitForDrainSound ==
    ASSUME NEW low \in Nat, NEW ch, Sound(ch, low), NEW a \in Actors
    PROVE  LET new == WaitForDrain(ch, a)
           IN  /\ Sound(new, low)
               /\ new.phase = ch.phase /\ new.stream = ch.stream /\ new.queue = ch.queue
               /\ new.listeners = ch.listeners
<1> DEFINE drainers == Append(ch.drainers, a)
           new == [ch EXCEPT !.drainers = drainers]
<1>1. drainers \in Seq(Actors)
  BY DEF Sound, Channel
<1> HIDE DEF drainers
<1>2. /\ new \in Channel /\ new.phase = ch.phase /\ new.stream = ch.stream /\ new.queue = ch.queue
      /\ new.listeners = ch.listeners
  BY <1>1 DEF Sound, Channel
<1>3. WaitForDrain(ch, a) = new \/ WaitForDrain(ch, a) = ch
  BY DEF WaitForDrain, drainers
<1> HIDE DEF new
<1>4. Sound(new, low)
  BY <1>2 DEF Sound, UnreadOf
<1> QED
  BY <1>2, <1>3, <1>4

\* The listeners change, and those that remain have something to wait for.
LEMMA ListenersSound ==
    ASSUME NEW low \in Nat, NEW ch, Sound(ch, low), NEW L \in SUBSET Actors,
           L # {} => ch.phase # "closed" /\ UnreadOf(ch) > low
    PROVE  LET new == [ch EXCEPT !.listeners = L]
           IN  /\ Sound(new, low)
               /\ new.phase = ch.phase /\ new.stream = ch.stream /\ new.queue = ch.queue
               /\ new.listeners = L
<1> DEFINE new == [ch EXCEPT !.listeners = L]
<1>1. /\ new \in Channel /\ new.phase = ch.phase /\ new.stream = ch.stream /\ new.queue = ch.queue
      /\ new.listeners = L
  BY DEF Sound, Channel
<1> HIDE DEF new
<1>2. Sound(new, low)
  BY <1>1 DEF Sound, UnreadOf
<1> QED
  BY <1>1, <1>2 DEF new
-----------------------------------------------------------------------------
\* The mark of the drain listeners is a number.
LEMMA LowType == Low \in Nat
  BY WaterMarksAssumption DEF Low

\* The lists stay right when channels keep their phase and nobody comes back.
LEMMA ListsKept ==
    ASSUME TypeOK, Lists, UNCHANGED kernel, UNCHANGED subscribers,
           \A p \in Readers : chan'[p].phase = chan[p].phase,
           \A p \in Readers : pc[p] = "done" => pc'[p] = "done",
           \A p \in Sinks : pc'[p] = "done" => pc[p] = "done"
    PROVE  Lists'
<1>1. OnlyKernel' = OnlyKernel
  BY DEF OnlyKernel
<1>2. Processors \subseteq Readers /\ Observers \subseteq Readers /\ Sinks \subseteq Readers
  BY DEF Readers, Sinks
<1>3. kernel.processors \subseteq Processors
  BY DEF TypeOK
<1>4. \A p \in Processors : chan'[p].phase = "open" => p \in kernel'.processors
  BY <1>2 DEF Lists
<1>5. kernel'.stopping => \A p \in kernel'.processors : chan'[p].phase # "open"
  BY <1>2, <1>3 DEF Lists
<1> QED
  BY <1>1, <1>2, <1>4, <1>5 DEF Lists

\* One actor moves outside the mutex, or within it.
LEMMA MoveKeeps ==
    ASSUME CoreInv, NEW a \in Actors, NEW place \in PCs, pc[a] # "done",
           pc' = [pc EXCEPT ![a] = place],
           UNCHANGED <<mutex, lastSeq, subscribers, got, kernel>>,
           chan' \in [Readers -> Channel],
           \A p \in Readers :
              /\ Sound(chan'[p], Low)
              /\ chan'[p].phase = chan[p].phase /\ chan'[p].stream = chan[p].stream
              /\ chan'[p].listeners # {} => Policy("throttle"),
           place \in Holding <=> pc[a] \in Holding, place = "locking" <=> pc[a] = "locking",
           place \in InBroadcast => a \in Producers \cup Sources,
           place \in {"throttled", "admitted"} => Policy("throttle"), place # "checking",
           a \in Sinks => place = "failed", place \notin {"asleep", "ready"}
    PROVE  CoreInv'
<1>1. pc \in [Actors -> PCs] /\ TypeOK /\ Places /\ Lists
  BY DEF CoreInv, TypeOK, PCs
<1>2. pc' \in [Actors -> PCs] /\ pc'[a] = place /\ \A b \in Actors : b # a => pc'[b] = pc[b]
  BY <1>1
<1>3. TypeOK'
  BY <1>1, <1>2 DEF TypeOK, PCs, Channel
<1>4. Consistent(mutex, Owners, Locking)'
  <2>1. Owners' = Owners /\ Locking' = Locking
    BY <1>2 DEF Owners, Locking
  <2> QED
    BY <2>1 DEF CoreInv, Consistent
<1>5. Low' = Low /\ \A name : Policy(name)' <=> Policy(name)
  BY DEF Low, Policy
<1>6. Readers \subseteq Actors /\ Sinks \subseteq Readers
  BY DEF Actors, Readers, Sinks
<1>7. Places'
  BY <1>1, <1>2, <1>5, <1>6 DEF Places
<1>8. Lists'
  BY <1>1, <1>2, <1>6, ListsKept
<1> QED
  BY <1>3, <1>4, <1>5, <1>7, <1>8 DEF CoreInv

\* lock() of the multiplexer's mutex.
LEMMA RequestKeeps ==
    ASSUME CoreInv, NEW a \in Producers \cup Sources, a \in Actors,
           pc[a] \notin Holding \cup {"locking", "done"}, Request(a)
    PROVE  CoreInv'
<1>1. /\ pc \in [Actors -> PCs] /\ TypeOK /\ Places /\ Lists
      /\ mutex \in [locked : BOOLEAN, waiters : Seq(Actors)]
      /\ Consistent(mutex, Owners, Locking)
  BY DEF CoreInv, TypeOK, PCs
<1> DEFINE place == IF mutex.locked THEN "locking" ELSE "committing"
<1>2. /\ mutex' = Lock(mutex, a) /\ pc' = [pc EXCEPT ![a] = place]
      /\ UNCHANGED <<lastSeq, subscribers, chan, got, kernel>>
  BY DEF Request
<1>3. place \in PCs /\ place \in {"locking", "committing"}
  BY DEF PCs
<1>4. pc' \in [Actors -> PCs] /\ pc'[a] = place /\ \A b \in Actors : b # a => pc'[b] = pc[b]
  <2> HIDE DEF place
  <2> QED
    BY <1>1, <1>2, <1>3
<1>5. mutex' \in [locked : BOOLEAN, waiters : Seq(Actors)] /\ Consistent(mutex', Owners', Locking')
  <2>1. a \notin Locking /\ a \notin Owners
    BY DEF Locking, Owners
  <2>2. CASE mutex.locked
    <3>1. Owners' = Owners /\ Locking' = Locking \cup {a}
      BY <1>4, <2>1, <2>2 DEF Owners, Locking, Holding
    <3> QED
      BY <1>1, <1>2, <2>1, <2>2, <3>1, LockTaken
  <2>3. CASE ~mutex.locked
    <3>1. Owners = {} /\ Locking = {}
      <4>1. mutex \in [locked : BOOLEAN, waiters : Seq(Actors)]
        BY <1>1
      <4>2. Consistent(mutex, Owners, Locking)
        BY <1>1
      <4> QED BY ONLY <2>3, <4>1, <4>2, a \in Actors, LockFree
    <3>2. Owners' = {a} /\ Locking' = Locking
      BY <1>4, <2>3, <3>1 DEF Owners, Locking, Holding
    <3> QED
      BY <1>1, <1>2, <2>3, <3>2, LockFree
  <2> QED
    BY <2>2, <2>3
<1>6. TypeOK'
  BY <1>1, <1>2, <1>4, <1>5 DEF TypeOK, PCs
<1>7. Low' = Low /\ \A name : Policy(name)' <=> Policy(name)
  BY <1>2 DEF Low, Policy
<1>8. Readers \subseteq Actors /\ Sinks \subseteq Readers /\ a \notin Sinks
  BY ActorsAssumption DEF Actors, Readers, Sinks
<1>9. Places'
  <2> HIDE DEF place
  <2> QED
    BY <1>1, <1>2, <1>3, <1>4, <1>7, <1>8 DEF Places
<1>10. Lists'
  <2>1. \A p \in Readers : pc[p] = "done" => pc'[p] = "done"
    BY <1>4, <1>8
  <2>2. \A p \in Sinks : pc'[p] = pc[p]
    BY <1>4, <1>8
  <2> QED
    BY <1>1, <1>2, <1>4, <1>8, <2>1, <2>2, ListsKept
<1> QED
  BY <1>2, <1>5, <1>6, <1>7, <1>9, <1>10 DEF CoreInv

\* The end of a critical section.
LEMMA ReleasedKeeps ==
    ASSUME CoreInv, NEW a \in Actors, NEW next \in {"failed", "idle", "looping", "waiting"},
           pc[a] \in Holding, Released(a, next), UNCHANGED <<lastSeq, subscribers, got, kernel>>,
           chan' \in [Readers -> Channel],
           \A p \in Readers :
              /\ Sound(chan'[p], Low)
              /\ chan'[p].phase = chan[p].phase /\ chan'[p].stream = chan[p].stream
              /\ chan'[p].listeners = chan[p].listeners
    PROVE  CoreInv'
<1> DEFINE woken == WokenByUnlock(mutex)
<1>1. /\ pc \in [Actors -> PCs] /\ TypeOK /\ Places /\ Lists
      /\ mutex \in [locked : BOOLEAN, waiters : Seq(Actors)]
      /\ Consistent(mutex, Owners, Locking)
  BY DEF CoreInv, TypeOK, PCs
<1>2. /\ mutex' = Unlock(mutex) /\ DOMAIN pc' = Actors
      /\ \A b \in Actors : pc'[b] = IF b \in woken THEN Entry ELSE IF b = a THEN next ELSE pc[b]
  BY DEF Released
<1>3. a \in Owners /\ Owners = {a} /\ mutex.locked /\ a \notin Locking
  BY <1>1 DEF Owners, Locking, Consistent, Holding
<1>4. /\ mutex' \in [locked : BOOLEAN, waiters : Seq(Actors)]
      /\ woken \subseteq Locking /\ Consistent(mutex', woken, Locking \ woken)
  BY <1>1, <1>2, <1>3, UnlockHandsOver
<1> HIDE DEF woken
<1>5. Entry \in {"checking", "committing"} /\ (Entry = "checking" => Policy("fail-first"))
  BY DEF Entry
<1> HIDE DEF Entry
<1>6. pc' \in [Actors -> PCs]
  <2>1. \A b \in Actors : pc'[b] \in PCs
    BY <1>1, <1>2, <1>5 DEF PCs
  <2>2. pc' = [b \in Actors |-> pc'[b]]
    BY DEF Released
  <2> QED
    BY <2>1, <2>2
<1>7. Owners' = woken /\ Locking' = Locking \ woken
  BY <1>2, <1>3, <1>4, <1>5 DEF Owners, Locking, Holding
<1>8. TypeOK'
  BY <1>1, <1>4, <1>6 DEF TypeOK, PCs, Channel
<1>9. Low' = Low /\ \A name : Policy(name)' <=> Policy(name)
  BY DEF Low, Policy
<1>10. /\ Readers \subseteq Actors /\ Sinks \subseteq Readers /\ a \notin Sinks /\ Sinks \cap Locking = {}
       /\ a \in Producers \cup Sources /\ Locking \subseteq Producers \cup Sources
  <2>1. a \in Producers \cup Sources /\ Locking \subseteq Producers \cup Sources
    BY <1>1 DEF Places, InBroadcast, Holding, Locking
  <2> QED
    BY <2>1, ActorsAssumption DEF Actors, Readers, Sinks
<1>11. Places'
  <2>1. \A b \in Actors : pc'[b] \in InBroadcast => b \in Producers \cup Sources
    BY <1>1, <1>2, <1>4, <1>10 DEF Places
  <2>2. \A b \in Actors : pc'[b] \in {"throttled", "admitted"} => Policy("throttle")
    BY <1>1, <1>2, <1>5 DEF Places
  <2>3. \A b \in Actors : pc'[b] = "checking" => Policy("fail-first")
    BY <1>1, <1>2, <1>5 DEF Places
  <2>4. \A p \in Sinks : pc'[p] \in Reading \cup {"failed", "done"}
    BY <1>1, <1>2, <1>4, <1>10 DEF Places
  <2>5. \A p \in Readers : pc'[p] \in {"asleep", "ready"} => chan'[p].stream = "idle"
    BY <1>1, <1>2, <1>5, <1>10 DEF Places
  <2> QED
    BY <1>1, <1>9, <2>1, <2>2, <2>3, <2>4, <2>5 DEF Places
<1>12. Lists'
  <2>1. \A p \in Readers : pc[p] = "done" => pc'[p] = "done"
    BY <1>2, <1>3, <1>4, <1>10 DEF Locking, Owners, Holding
  <2>2. \A p \in Sinks : pc'[p] = pc[p]
    BY <1>2, <1>4, <1>10
  <2> QED
    BY <1>1, <1>10, <2>1, <2>2, ListsKept
<1> QED
  BY <1>4, <1>7, <1>8, <1>9, <1>11, <1>12 DEF CoreInv

\* The list only shrinks.
LEMMA SplicedSubset ==
    ASSUME NEW list, NEW C
    PROVE  Spliced(list, C) \subseteq list
  BY DEF Spliced

\* An element of the list that closes takes nobody else off it.
LEMMA SplicedElement ==
    ASSUME NEW list \in SUBSET Readers, NEW p \in list
    PROVE  Spliced(list, {p}) = list \ {p}
<1> DEFINE rest == list \ {p}
<1>1. {p} \ list = {} /\ Cardinality({p} \ list) = 0
  BY FS_EmptySet
<1>2. \A q \in rest : Cardinality({r \in rest : Rank[r] > Rank[q]}) >= 0
  <2> SUFFICES ASSUME NEW q \in rest
               PROVE  Cardinality({r \in rest : Rank[r] > Rank[q]}) >= 0
    OBVIOUS
  <2>1. IsFiniteSet(Actors) /\ {r \in rest : Rank[r] > Rank[q]} \subseteq Actors
    BY ActorsAssumption DEF Actors
  <2>2. IsFiniteSet({r \in rest : Rank[r] > Rank[q]})
    BY <2>1, FS_Subset
  <2> QED
    BY <2>2, FS_CardinalityType
<1> QED
  BY <1>1, <1>2 DEF Spliced

\* The reader of p takes a turn of its stream, which makes ch of its channel.
Turns(p, ch) ==
    /\ pc[p] \in {"running", "ready"}
    /\ Sound(ch, Low) /\ Turned(chan[p], ch) /\ Receive(p, ch)
    /\ \/ subscribers' = subscribers
       \/ subscribers' \subseteq subscribers /\ chan[p].phase # "open" /\ ch.stream = "ended"
    /\ UNCHANGED <<mutex, lastSeq, kernel>>

\* next() takes a turn.
LEMMA PullTurns ==
    ASSUME CoreInv, NEW p \in Readers, Pull(p)
    PROVE  \E ch \in Channel : Turns(p, ch)
<1>1. Sound(chan[p], Low) /\ Low \in Nat
  BY LowType DEF CoreInv
<1>2. pc[p] = "running" /\ chan[p].stream # "ended" /\ Receive(p, Pulled(chan[p], Low))
  BY DEF Pull
<1>3. Sound(Pulled(chan[p], Low), Low) /\ Turned(chan[p], Pulled(chan[p], Low))
  BY <1>1, <1>2, PulledSound
<1>4. \/ subscribers' = subscribers
      \/ /\ subscribers' \subseteq subscribers /\ chan[p].phase # "open"
         /\ Pulled(chan[p], Low).stream = "ended"
  <2>1. CASE ClosesOnPull(chan[p])
    <3>1. subscribers' \subseteq subscribers /\ chan[p].phase # "open"
      BY <2>1, SplicedSubset DEF Pull, ClosesOnPull
    <3>2. Close(chan[p]) \in Channel
      BY <1>1, CloseSound DEF Sound
    <3>3. Pulled(chan[p], Low) = [Close(chan[p]) EXCEPT !.stream = "ended"]
      BY <2>1 DEF Pulled
    <3>4. Pulled(chan[p], Low).stream = "ended"
      BY <3>2, <3>3 DEF Channel
    <3> QED
      BY <3>1, <3>4
  <2>2. CASE ~ClosesOnPull(chan[p])
    BY <2>2 DEF Pull
  <2> QED
    BY <2>1, <2>2
<1>5. Pulled(chan[p], Low) \in Channel /\ UNCHANGED <<mutex, lastSeq, kernel>>
  BY <1>3 DEF Sound, Pull
<1> QED
  BY <1>2, <1>3, <1>4, <1>5 DEF Turns

\* So does a reader that was woken.
LEMMA WakeTurns ==
    ASSUME CoreInv, NEW p \in Readers, Wake(p)
    PROVE  \E ch \in Channel : Turns(p, ch)
<1>1. Sound(chan[p], Low) /\ Low \in Nat
  BY LowType DEF CoreInv
<1>2. pc[p] = "ready" /\ chan[p].stream = "idle" /\ Receive(p, Advance(chan[p]))
  BY DEF Wake, CoreInv, Places
<1>3. Sound(Advance(chan[p]), Low) /\ Turned(chan[p], Advance(chan[p]))
  BY <1>1, <1>2, AdvanceSound
<1>4. Advance(chan[p]) \in Channel /\ UNCHANGED <<mutex, lastSeq, kernel, subscribers>>
  BY <1>3 DEF Sound, Wake
<1> QED
  BY <1>2, <1>3, <1>4 DEF Turns

\* A turn keeps the invariant.
LEMMA TurnKeeps ==
    ASSUME CoreInv, NEW p \in Readers, NEW ch \in Channel, Turns(p, ch)
    PROVE  CoreInv'
<1>a. /\ pc[p] \in {"running", "ready"} /\ Sound(ch, Low) /\ Turned(chan[p], ch) /\ Receive(p, ch)
      /\ subscribers' = subscribers \/ (subscribers' \subseteq subscribers /\ chan[p].phase # "open")
      /\ UNCHANGED <<mutex, lastSeq, kernel>>
  BY DEF Turns
<1> USE <1>a
<1> DEFINE place == IF ch.stream = "idle" THEN "asleep" ELSE "running"
<1>1. /\ pc \in [Actors -> PCs] /\ TypeOK /\ Places /\ Lists /\ p \in Actors
      /\ chan \in [Readers -> Channel] /\ subscribers \subseteq Readers
      /\ Consistent(mutex, Owners, Locking)
  BY DEF CoreInv, TypeOK, PCs, Channel, Actors
<1>2. /\ chan' = [chan EXCEPT ![p] = ch] /\ pc' = [pc EXCEPT ![p] = place]
      /\ place \in {"asleep", "running"} /\ (place = "asleep" => ch.stream = "idle")
  BY DEF Receive
<1> HIDE DEF place
<1>3. /\ pc' \in [Actors -> PCs] /\ pc'[p] = place /\ \A b \in Actors : b # p => pc'[b] = pc[b]
      /\ chan' \in [Readers -> Channel] /\ chan'[p] = ch /\ \A q \in Readers : q # p => chan'[q] = chan[q]
  BY <1>1, <1>2 DEF PCs, Sound
<1>4. got' \in [Readers -> Seq(Nat)]
  <2>1. CASE ch.stream = "held"
    <3>1. chan[p].queue \in Seq(Nat) /\ chan[p].queue # <<>>
      BY <1>1, <2>1 DEF Turned, Channel
    <3>2. Head(chan[p].queue) \in Nat
      BY <3>1
    <3>3. got \in [Readers -> Seq(Nat)] /\ got' = [got EXCEPT ![p] = Append(@, Head(chan[p].queue))]
      BY <1>1, <2>1 DEF TypeOK, Receive
    <3>4. Append(got[p], Head(chan[p].queue)) \in Seq(Nat)
      BY <3>2, <3>3
    <3> QED
      BY <3>3, <3>4
  <2>2. CASE ch.stream # "held"
    BY <1>1, <2>2 DEF TypeOK, Receive
  <2> QED
    BY <2>1, <2>2
<1>5. TypeOK'
  BY <1>1, <1>3, <1>4 DEF TypeOK, PCs, Channel
<1>6. Consistent(mutex, Owners, Locking)'
  <2>1. Owners' = Owners /\ Locking' = Locking
    BY <1>2, <1>3 DEF Owners, Locking, Holding
  <2> QED
    BY <1>1, <2>1
<1>7. Low' = Low /\ \A name : Policy(name)' <=> Policy(name)
  BY DEF Low, Policy
<1>8. \A q \in Readers : Sound(chan'[q], Low')
  BY <1>3, <1>7 DEF CoreInv
<1>9. Readers \subseteq Actors /\ Sinks \subseteq Readers /\ Processors \subseteq Readers
      /\ Observers \subseteq Readers
  BY DEF Actors, Readers, Sinks
<1>10. Places'
  <2>1. \A b \in Actors : pc'[b] \in InBroadcast => b \in Producers \cup Sources
    BY <1>1, <1>2, <1>3 DEF Places, InBroadcast
  <2>2. \A b \in Actors : pc'[b] \in {"throttled", "admitted"} => Policy("throttle")
    BY <1>1, <1>2, <1>3 DEF Places
  <2>3. \A b \in Actors : pc'[b] = "checking" => Policy("fail-first")
    BY <1>1, <1>2, <1>3 DEF Places
  <2>4. \A q \in Sinks : pc'[q] \in Reading \cup {"failed", "done"}
    BY <1>1, <1>2, <1>3, <1>9 DEF Places, Reading
  <2>5. \A q \in Readers : pc'[q] \in {"asleep", "ready"} => chan'[q].stream = "idle"
    BY <1>1, <1>2, <1>3, <1>9 DEF Places
  <2>6. \A q \in Readers : chan'[q].listeners # {} => Policy("throttle")
    BY <1>1, <1>3 DEF Places, Turned
  <2> QED
    BY <1>7, <2>1, <2>2, <2>3, <2>4, <2>5, <2>6 DEF Places
<1>11. Lists'
  <2>1. \A q \in Readers : chan'[q].phase = "open" <=> chan[q].phase = "open"
    BY <1>3 DEF Turned
  <2>2. \A q \in Readers : (pc'[q] = "done" => pc[q] = "done") /\ (pc[q] = "done" => pc'[q] = "done")
    BY <1>2, <1>3, <1>9
  <2>3. OnlyKernel' <=> OnlyKernel
    BY DEF OnlyKernel
  <2>4. kernel.processors \subseteq Readers
    BY <1>1, <1>9 DEF TypeOK
  <2>5. ASSUME OnlyKernel, NEW q \in Readers, chan'[q].phase = "open"
        PROVE  q \in subscribers'
    <3>1. q \in subscribers /\ chan[q].phase = "open"
      BY <1>1, <2>1, <2>5 DEF Lists
    <3>2. CASE subscribers' = subscribers
      BY <3>1, <3>2
    <3>3. CASE chan[p].phase # "open"
      <4>1. kernel.stopping
        BY <1>1, <2>5, <3>3 DEF Lists
      <4>2. q \in Processors
        BY <1>1, <2>5, <3>1 DEF Lists, Readers
      <4> QED
        BY <1>1, <3>1, <4>1, <4>2 DEF Lists
    <3> QED
      BY <3>2, <3>3
  <2>6. \A q \in Processors : chan'[q].phase = "open" => q \in kernel'.processors
    BY <1>1, <1>9, <2>1 DEF Lists
  <2>7. kernel'.stopping => \A q \in kernel'.processors : chan'[q].phase # "open"
    BY <1>1, <2>1, <2>4 DEF Lists
  <2>8. \A q \in Sinks : pc'[q] = "done" => chan'[q].phase # "open"
    BY <1>1, <1>9, <2>1, <2>2 DEF Lists
  <2>9. OnlyKernel => /\ \A q \in Observers : chan'[q].phase # "open"
                      /\ ~kernel'.stopping => \A q \in Readers : chan'[q].phase # "open" => pc'[q] = "done"
    BY <1>1, <1>9, <2>1, <2>2 DEF Lists
  <2> QED
    BY <2>3, <2>5, <2>6, <2>7, <2>8, <2>9 DEF Lists
<1>12. subscribers' \subseteq Readers
  BY <1>1
<1> QED
  BY <1>5, <1>6, <1>8, <1>10, <1>11 DEF CoreInv

\* Channels are unsubscribed, and some actors leave their loops.
LEMMA UnsubscribeKeeps ==
    ASSUME CoreInv, NEW S \in SUBSET Readers, NEW drain, NEW control,
           DOMAIN control = Actors,
           \A a \in Actors :
              control[a] = pc[a] \/ (control[a] = "done" /\ pc[a] \in {"running", "failed"}),
           UnsubscribeAll(S, drain, control), UNCHANGED <<mutex, lastSeq, got>>,
           kernel' \in [policy : Policies, processors : SUBSET Processors,
                        stopping : BOOLEAN, cancelled : BOOLEAN],
           kernel'.policy = kernel.policy, Lists'
    PROVE  CoreInv'
<1> DEFINE closing == {p \in S : ClosesAtOnce(chan[p], drain)}
<1>1. /\ pc \in [Actors -> PCs] /\ TypeOK /\ Places
      /\ chan \in [Readers -> Channel] /\ subscribers \subseteq Readers
      /\ Consistent(mutex, Owners, Locking)
  BY DEF CoreInv, TypeOK, PCs, Channel
<1>2. /\ chan' = [p \in Readers |-> IF p \in S THEN Unsubscribe(chan[p], drain) ELSE chan[p]]
      /\ subscribers' \subseteq subscribers
      /\ pc' = [a \in Actors |-> IF a \in closing /\ control[a] = "asleep"
                                 THEN "ready" ELSE control[a]]
  BY SplicedSubset DEF UnsubscribeAll
<1> HIDE DEF closing
<1>3. /\ pc' = [a \in Actors |-> pc'[a]]
      /\ \A a \in Actors : \/ pc'[a] = pc[a]
                           \/ pc'[a] = "ready" /\ pc[a] = "asleep"
                           \/ pc'[a] = "done" /\ pc[a] \in {"running", "failed"}
  BY <1>2
<1>4. pc' \in [Actors -> PCs]
  <2>1. \A a \in Actors : pc'[a] \in PCs
    BY <1>1, <1>3 DEF PCs
  <2> QED
    BY <1>3, <2>1
<1>5. Low' = Low /\ Low \in Nat /\ \A name : Policy(name)' <=> Policy(name)
  BY LowType DEF Low, Policy
<1>6. \A p \in Readers : /\ Sound(chan'[p], Low) /\ chan'[p].stream = chan[p].stream
                         /\ chan'[p].listeners \subseteq chan[p].listeners
  <2> TAKE p \in Readers
  <2>1. Sound(chan[p], Low)
    BY DEF CoreInv
  <2>2. CASE p \in S
    <3>1. chan'[p] = Unsubscribe(chan[p], drain)
      BY <1>2, <2>2
    <3> QED
      BY <1>5, <2>1, <3>1, UnsubscribeSound
  <2>3. CASE p \notin S
    BY <1>2, <2>1, <2>3
  <2> QED
    BY <2>2, <2>3
<1>7. chan' \in [Readers -> Channel]
  BY <1>2, <1>6 DEF Sound
<1>8. TypeOK'
  BY <1>1, <1>2, <1>4, <1>7 DEF TypeOK, PCs, Channel
<1>9. Consistent(mutex, Owners, Locking)'
  <2>1. Owners' = Owners /\ Locking' = Locking
    BY <1>3 DEF Owners, Locking, Holding
  <2> QED
    BY <1>1, <2>1
<1>10. Readers \subseteq Actors /\ Sinks \subseteq Readers
  BY DEF Actors, Readers, Sinks
<1>11. Places'
  <2>1. \A b \in Actors : pc'[b] \in InBroadcast => b \in Producers \cup Sources
    BY <1>1, <1>3 DEF Places, InBroadcast
  <2>2. \A b \in Actors : pc'[b] \in {"throttled", "admitted"} => Policy("throttle")
    BY <1>1, <1>3 DEF Places
  <2>3. \A b \in Actors : pc'[b] = "checking" => Policy("fail-first")
    BY <1>1, <1>3 DEF Places
  <2>4. \A q \in Sinks : pc'[q] \in Reading \cup {"failed", "done"}
    BY <1>1, <1>3, <1>10 DEF Places, Reading
  <2>5. \A q \in Readers : pc'[q] \in {"asleep", "ready"} => chan'[q].stream = "idle"
    BY <1>1, <1>3, <1>6, <1>10 DEF Places
  <2>6. \A q \in Readers : chan'[q].listeners # {} => Policy("throttle")
    BY <1>1, <1>6 DEF Places
  <2> QED
    BY <1>5, <2>1, <2>2, <2>3, <2>4, <2>5, <2>6 DEF Places
<1> QED
  BY <1>5, <1>6, <1>8, <1>9, <1>11 DEF CoreInv

\* Who is unsubscribed is not open any more, and nobody else closes.
LEMMA UnsubscribedPhases ==
    ASSUME CoreInv, NEW S \in SUBSET Readers, NEW drain, NEW control,
           UnsubscribeAll(S, drain, control)
    PROVE  \A p \in Readers : /\ p \in S => chan'[p].phase # "open"
                              /\ p \notin S => chan'[p] = chan[p]
<1> TAKE p \in Readers
<1>1. Low \in Nat /\ Sound(chan[p], Low)
  BY LowType DEF CoreInv
<1>2. chan'[p] = IF p \in S THEN Unsubscribe(chan[p], drain) ELSE chan[p]
  BY DEF UnsubscribeAll
<1>3. Unsubscribe(chan[p], drain).phase # "open"
  BY <1>1, UnsubscribeSound
<1> QED
  BY <1>2, <1>3

\* A generator that returns closes its channel, and no other leaves the list.
LEMMA ReturnKeeps ==
    ASSUME CoreInv, NEW p \in Readers, Return(p)
    PROVE  CoreInv'
<1> DEFINE control == [pc EXCEPT ![p] = "done"]
<1>1. /\ pc \in [Actors -> PCs] /\ TypeOK /\ Lists /\ p \in Actors /\ p \in Processors
      /\ pc[p] = "running" /\ UnsubscribeAll({p}, FALSE, control)
      /\ UNCHANGED <<mutex, lastSeq, got, kernel>>
  BY DEF CoreInv, TypeOK, PCs, Return, Actors
<1>2. /\ DOMAIN control = Actors /\ control[p] = "done"
      /\ \A a \in Actors : a # p => control[a] = pc[a]
  BY <1>1
<1> HIDE DEF control
<1>3. \A q \in Readers : /\ q = p => chan'[q].phase # "open"
                         /\ q # p => chan'[q] = chan[q]
  <2>1. {p} \in SUBSET Readers
    OBVIOUS
  <2> QED
    BY <1>1, <2>1, UnsubscribedPhases
<1>4. \A a \in Actors : /\ pc'[a] = "done" <=> (a = p \/ pc[a] = "done")
  BY <1>1, <1>2 DEF UnsubscribeAll
<1>5. Processors \subseteq Readers /\ Observers \subseteq Readers /\ Sinks \subseteq Readers
      /\ Readers \subseteq Actors /\ kernel.processors \subseteq Processors
  BY <1>1 DEF Readers, Sinks, Actors, TypeOK
<1>6. OnlyKernel' <=> OnlyKernel
  BY <1>1 DEF OnlyKernel
<1>7. ASSUME OnlyKernel, NEW q \in Readers, chan'[q].phase = "open"
      PROVE  q \in subscribers'
  <2>1. q # p /\ chan[q].phase = "open" /\ q \in subscribers
    BY <1>1, <1>3, <1>7 DEF Lists
  <2>2. p \in subscribers
    <3>1. CASE chan[p].phase = "open"
      BY <1>1, <1>7, <3>1 DEF Lists
    <3>2. CASE chan[p].phase # "open"
      <4>1. kernel.stopping
        BY <1>1, <1>7, <3>2 DEF Lists
      <4>2. q \in Processors
        BY <1>1, <1>7, <2>1 DEF Lists, Readers
      <4> QED
        BY <1>1, <2>1, <4>1, <4>2 DEF Lists
    <3> QED
      BY <3>1, <3>2
  <2>3. subscribers' = Spliced(subscribers, {p})
    <3>1. {r \in {p} : ClosesAtOnce(chan[r], FALSE)} = {p}
      BY DEF ClosesAtOnce
    <3> QED
      BY <1>1, <3>1 DEF UnsubscribeAll
  <2>4. subscribers' = subscribers \ {p}
    BY <1>1, <2>2, <2>3, SplicedElement DEF TypeOK
  <2> QED
    BY <2>1, <2>4
<1>8. Lists'
  <2>1. \A q \in Processors : chan'[q].phase = "open" => q \in kernel'.processors
    BY <1>1, <1>3, <1>5 DEF Lists
  <2>2. kernel'.stopping => \A q \in kernel'.processors : chan'[q].phase # "open"
    BY <1>1, <1>3, <1>5 DEF Lists
  <2>3. \A q \in Sinks : pc'[q] = "done" => chan'[q].phase # "open"
    BY <1>1, <1>3, <1>4, <1>5 DEF Lists
  <2>4. OnlyKernel => /\ \A q \in Observers : chan'[q].phase # "open"
                      /\ ~kernel'.stopping => \A q \in Readers : chan'[q].phase # "open" => pc'[q] = "done"
    BY <1>1, <1>3, <1>4, <1>5 DEF Lists
  <2> QED
    BY <1>6, <1>7, <2>1, <2>2, <2>3, <2>4 DEF Lists
<1>9. kernel' \in [policy : Policies, processors : SUBSET Processors,
                   stopping : BOOLEAN, cancelled : BOOLEAN]
  BY <1>1 DEF TypeOK
<1>10. {p} \in SUBSET Readers
  OBVIOUS
<1> QED
  BY <1>1, <1>2, <1>8, <1>9, <1>10, UnsubscribeKeeps

\* An observer leaves.
LEMMA LeaveKeeps ==
    ASSUME CoreInv, NEW o \in Observers, NEW drain \in BOOLEAN, Leave(o, drain)
    PROVE  CoreInv'
<1>1. /\ pc \in [Actors -> PCs] /\ TypeOK /\ Lists /\ o \in Readers
      /\ chan[o].phase = "open" /\ UnsubscribeAll({o}, drain, pc)
      /\ UNCHANGED <<mutex, lastSeq, got, kernel>>
  BY DEF CoreInv, TypeOK, PCs, Leave, Readers
<1>2. \A q \in Readers : /\ q = o => chan'[q].phase # "open"
                         /\ q # o => chan'[q] = chan[q]
  <2>1. {o} \in SUBSET Readers
    BY <1>1
  <2> QED
    BY <1>1, <2>1, UnsubscribedPhases
<1>3. \A a \in Actors : pc'[a] = "done" <=> pc[a] = "done"
  BY <1>1 DEF UnsubscribeAll
<1>4. Processors \subseteq Readers /\ Sinks \subseteq Readers
      /\ Readers \subseteq Actors /\ kernel.processors \subseteq Processors
  BY <1>1 DEF Readers, Sinks, Actors, TypeOK
<1>5. ~OnlyKernel' /\ ~OnlyKernel
  BY <1>1 DEF OnlyKernel, Lists
<1>6. Lists'
  <2>1. \A q \in Processors : chan'[q].phase = "open" => q \in kernel'.processors
    BY <1>1, <1>2, <1>4 DEF Lists
  <2>2. kernel'.stopping => \A q \in kernel'.processors : chan'[q].phase # "open"
    BY <1>1, <1>2, <1>4 DEF Lists
  <2>3. \A q \in Sinks : pc'[q] = "done" => chan'[q].phase # "open"
    BY <1>1, <1>2, <1>3, <1>4 DEF Lists
  <2> QED
    BY <1>5, <2>1, <2>2, <2>3 DEF Lists
<1>7. kernel' \in [policy : Policies, processors : SUBSET Processors,
                   stopping : BOOLEAN, cancelled : BOOLEAN]
  BY <1>1 DEF TypeOK
<1>8. {o} \in SUBSET Readers /\ DOMAIN pc = Actors
  BY <1>1
<1> QED
  BY <1>1, <1>6, <1>7, <1>8, UnsubscribeKeeps

\* shutdown(), also by actors that fail.
LEMMA ShutDownKeeps ==
    ASSUME CoreInv, NEW force \in BOOLEAN, NEW quitters \in SUBSET Actors,
           \A a \in quitters : pc[a] = "failed", ShutDown(force, quitters)
    PROVE  CoreInv'
<1> DEFINE control == [a \in Actors |-> IF a \in quitters THEN "done" ELSE pc[a]]
<1>1. /\ pc \in [Actors -> PCs] /\ TypeOK /\ Lists /\ Places
      /\ kernel \in [policy : Policies, processors : SUBSET Processors,
                     stopping : BOOLEAN, cancelled : BOOLEAN]
      /\ UNCHANGED <<mutex, lastSeq, got>>
      /\ kernel' = [kernel EXCEPT !.stopping = TRUE, !.cancelled = @ \/ force]
  BY DEF CoreInv, TypeOK, PCs, ShutDown
<1>2. /\ kernel' \in [policy : Policies, processors : SUBSET Processors,
                      stopping : BOOLEAN, cancelled : BOOLEAN]
      /\ kernel'.policy = kernel.policy /\ kernel'.processors = kernel.processors /\ kernel'.stopping
  BY <1>1
<1>3. /\ IF kernel.stopping
         THEN pc' = control /\ UNCHANGED <<chan, subscribers>>
         ELSE UnsubscribeAll(kernel.processors, ~force, control)
      /\ control = [a \in Actors |-> control[a]] /\ DOMAIN control = Actors
      /\ \A a \in Actors : control[a] = IF a \in quitters THEN "done" ELSE pc[a]
  BY DEF ShutDown
<1> HIDE DEF control
<1>4. Processors \subseteq Readers /\ Observers \subseteq Readers /\ Sinks \subseteq Processors
      /\ Readers \subseteq Actors /\ kernel.processors \subseteq Processors
  BY <1>1 DEF Readers, Sinks, Actors, TypeOK
<1>5. \A p \in Readers : chan'[p].phase = "open" => chan[p].phase = "open" /\ p \notin kernel.processors
  <2>1. CASE kernel.stopping
    BY <1>1, <1>3, <2>1 DEF Lists
  <2>2. CASE ~kernel.stopping
    <3>1. UnsubscribeAll(kernel.processors, ~force, control) /\ kernel.processors \in SUBSET Readers
      BY <1>3, <1>4, <2>2
    <3> QED
      BY <3>1, UnsubscribedPhases
  <2> QED
    BY <2>1, <2>2
<1>6. OnlyKernel' <=> OnlyKernel
  BY <1>2 DEF OnlyKernel
<1>7. \A p \in Processors : chan'[p].phase # "open"
  BY <1>1, <1>4, <1>5 DEF Lists
<1>8. OnlyKernel => \A p \in Readers : chan'[p].phase # "open"
  BY <1>1, <1>4, <1>5, <1>7 DEF Lists, Readers
<1>9. Lists'
  BY <1>2, <1>4, <1>6, <1>7, <1>8 DEF Lists
<1>10. CASE ~kernel.stopping
  <2>1. UnsubscribeAll(kernel.processors, ~force, control) /\ kernel.processors \in SUBSET Readers
    BY <1>3, <1>4, <1>10
  <2>2. \A a \in Actors :
            control[a] = pc[a] \/ (control[a] = "done" /\ pc[a] \in {"running", "failed"})
    BY <1>3
  <2>3. DOMAIN control = Actors /\ UNCHANGED <<mutex, lastSeq, got>>
    BY <1>1, <1>3
  <2> HIDE DEF CoreInv
  <2> QED
    BY <1>2, <1>9, <2>1, <2>2, <2>3, UnsubscribeKeeps
<1>11. CASE kernel.stopping
  <2>1. pc' = control /\ UNCHANGED <<chan, subscribers>>
    BY <1>3, <1>11
  <2>2. pc' \in [Actors -> PCs]
    <3>1. \A a \in Actors : control[a] \in PCs
      BY <1>1, <1>3 DEF PCs
    <3> QED
      BY <1>3, <2>1, <3>1
  <2>3. \A a \in Actors : pc'[a] = pc[a] \/ (pc'[a] = "done" /\ pc[a] = "failed")
    BY <1>3, <2>1
  <2>4. TypeOK'
    BY <1>1, <1>2, <2>1, <2>2 DEF TypeOK, PCs
  <2>5. Owners' = Owners /\ Locking' = Locking
    BY <2>3 DEF Owners, Locking, Holding
  <2>6. Low' = Low /\ \A name : Policy(name)' <=> Policy(name)
    BY <1>2 DEF Low, Policy
  <2>7. Places'
    BY <1>1, <1>4, <2>1, <2>3, <2>6 DEF Places, InBroadcast, Reading
  <2> QED
    BY <1>1, <1>9, <2>1, <2>4, <2>5, <2>6, <2>7 DEF CoreInv
<1> QED
  BY <1>10, <1>11

\* An actor moves that has no part in a broadcast before or afterwards, or ends one.
LEMMA PlainMoveKeeps ==
    ASSUME CoreInv, NEW a \in Actors, NEW place \in {"looping", "idle", "running", "done", "failed"},
           pc[a] \notin Holding \cup {"done", "locking"}, pc' = [pc EXCEPT ![a] = place],
           UNCHANGED <<mutex, lastSeq, subscribers, chan, got, kernel>>,
           a \in Sinks => place = "failed"
    PROVE  CoreInv'
<1>1. place \in PCs /\ place \notin InBroadcast \cup Holding
  BY DEF PCs, InBroadcast, Holding
<1>2. chan' \in [Readers -> Channel]
  BY DEF CoreInv, TypeOK, Channel
<1>3. \A p \in Readers : /\ Sound(chan'[p], Low)
                         /\ chan'[p].phase = chan[p].phase /\ chan'[p].stream = chan[p].stream
                         /\ chan'[p].listeners # {} => Policy("throttle")
  BY DEF CoreInv, Places
<1> QED
  BY <1>1, <1>2, <1>3, MoveKeeps DEF InBroadcast, Holding

\* Who is who.
LEMMA SinksDoNotYield ==
    /\ Sinks \cap (Producers \cup Sources) = {} /\ Sinks \cap Observers = {}
    /\ Readers \subseteq Actors /\ Sources \subseteq Actors /\ Producers \subseteq Actors
    /\ Sinks \subseteq Readers /\ Processors \subseteq Actors /\ Observers \subseteq Actors
  BY ActorsAssumption DEF Sinks, Readers, Actors

\* A commit reaches the channels of the list.
LEMMA FanOutKeeps ==
    ASSUME CoreInv, NEW a \in Actors, FanOut(a)
    PROVE  CoreInv'
<1>1. /\ pc \in [Actors -> PCs] /\ TypeOK /\ Places /\ Lists /\ pc[a] = "committing"
      /\ lastSeq \in Nat /\ lastSeq' = lastSeq + 1 /\ UNCHANGED <<mutex, subscribers, got, kernel>>
      /\ Consistent(mutex, Owners, Locking)
  BY DEF CoreInv, TypeOK, PCs, FanOut
<1>2. /\ chan' = [p \in Readers |-> IF p \in subscribers THEN Enqueue(chan[p], lastSeq') ELSE chan[p]]
      /\ pc' = [b \in Actors |-> IF b = a THEN "settling"
                                 ELSE IF b \in subscribers /\ pc[b] = "asleep"
                                      THEN "ready" ELSE pc[b]]
  BY DEF FanOut, WokenByFanOut
<1>3. Low' = Low /\ Low \in Nat /\ \A name : Policy(name)' <=> Policy(name)
  BY <1>1, LowType DEF Low, Policy
<1>4. \A p \in Readers : /\ Sound(chan'[p], Low) /\ chan'[p].phase = chan[p].phase
                         /\ chan'[p].stream = chan[p].stream /\ chan'[p].listeners = chan[p].listeners
  <2> TAKE p \in Readers
  <2>1. Sound(chan[p], Low) /\ lastSeq' \in Nat
    BY <1>1 DEF CoreInv
  <2>2. CASE p \in subscribers
    <3>1. chan'[p] = Enqueue(chan[p], lastSeq')
      BY <1>2, <2>2
    <3> HIDE DEF CoreInv
    <3> QED
      BY <1>3, <2>1, <3>1, EnqueueSound
  <2>3. CASE p \notin subscribers
    BY <1>2, <2>1, <2>3
  <2> QED
    BY <2>2, <2>3
<1>5. chan' \in [Readers -> Channel]
  BY <1>2, <1>4 DEF Sound
<1>6. /\ pc'[a] = "settling"
      /\ \A b \in Actors : b # a => pc'[b] = pc[b] \/ (pc'[b] = "ready" /\ pc[b] = "asleep")
  BY <1>2
<1>7. pc' \in [Actors -> PCs]
  <2>1. \A b \in Actors : pc'[b] \in PCs
    BY <1>1, <1>6 DEF PCs
  <2> QED
    BY <1>2, <2>1
<1>8. TypeOK'
  BY <1>1, <1>5, <1>7 DEF TypeOK, PCs, Channel
<1>9. Owners' = Owners /\ Locking' = Locking
  BY <1>1, <1>6 DEF Owners, Locking, Holding
<1>10. Places'
  <2>1. a \in Producers \cup Sources /\ a \notin Sinks
    BY <1>1, SinksDoNotYield DEF Places, InBroadcast
  <2>2. \A b \in Actors : pc'[b] \in InBroadcast => b \in Producers \cup Sources
    BY <1>1, <1>6, <2>1 DEF Places, InBroadcast
  <2>3. \A b \in Actors : /\ pc'[b] \in {"throttled", "admitted"} => Policy("throttle")
                          /\ pc'[b] = "checking" => Policy("fail-first")
    BY <1>1, <1>6 DEF Places
  <2>4. \A q \in Sinks : pc'[q] \in Reading \cup {"failed", "done"}
    BY <1>1, <1>6, <2>1, SinksDoNotYield DEF Places, Reading
  <2>5. \A q \in Readers : pc'[q] \in {"asleep", "ready"} => chan'[q].stream = "idle"
    BY <1>1, <1>4, <1>6, SinksDoNotYield DEF Places
  <2>6. \A q \in Readers : chan'[q].listeners # {} => Policy("throttle")
    BY <1>1, <1>4 DEF Places
  <2> QED
    BY <1>3, <2>2, <2>3, <2>4, <2>5, <2>6 DEF Places
<1>11. Lists'
  <2>1. \A b \in Actors : pc[b] = "done" <=> pc'[b] = "done"
    BY <1>1, <1>6
  <2> QED
    BY <1>1, <1>4, <2>1, SinksDoNotYield, ListsKept
<1> QED
  BY <1>1, <1>3, <1>4, <1>8, <1>9, <1>10, <1>11 DEF CoreInv

\* throttle() listens for a channel that is behind, or lets the broadcast pass.
LEMMA ThrottleKeeps ==
    ASSUME CoreInv, NEW a \in Producers \cup Sources, Policy("throttle"), Throttle(a),
           pc[a] \in {"running", "idle", "throttled"}
    PROVE  CoreInv'
<1> DEFINE place == IF Overloaded(a) = {} THEN "admitted" ELSE "throttled"
<1>1. /\ pc' = [pc EXCEPT ![a] = place] /\ place \in {"admitted", "throttled"}
      /\ UNCHANGED <<mutex, lastSeq, subscribers, got, kernel>>
      /\ chan' = [p \in Readers |->
                    IF p \in Overloaded(a) /\ \A q \in Overloaded(a) : Rank[p] <= Rank[q]
                    THEN [chan[p] EXCEPT !.listeners = @ \cup {a}] ELSE chan[p]]
  BY DEF Throttle
<1> HIDE DEF place
<1>2. a \in Actors /\ Low \in Nat /\ Low = LowWaterMark
  BY SinksDoNotYield, LowType DEF Low
<1>3. \A p \in Readers :
         /\ Sound(chan'[p], Low)
         /\ chan'[p].phase = chan[p].phase /\ chan'[p].stream = chan[p].stream
  <2> TAKE p \in Readers
  <2> DEFINE L == chan[p].listeners \cup {a}
  <2>1. Sound(chan[p], Low) /\ chan[p] \in Channel
    BY DEF CoreInv, Sound
  <2>2. CASE p \in Overloaded(a) /\ \A q \in Overloaded(a) : Rank[p] <= Rank[q]
    <3>1. chan'[p] = [chan[p] EXCEPT !.listeners = L]
      BY <1>1, <2>2
    <3>2. L \in SUBSET Actors
      BY <1>2, <2>1 DEF Channel
    <3>3. Len(chan[p].queue) >= HighWaterMark /\ Len(chan[p].queue) \in Nat /\ chan[p].queue \in Seq(Nat)
      BY <2>1, <2>2 DEF Overloaded, Channel
    <3>4. chan[p].queue # <<>> /\ UnreadOf(chan[p]) > Low
      <4>1. HighWaterMark \in Nat /\ LowWaterMark \in Nat /\ LowWaterMark < HighWaterMark
        BY WaterMarksAssumption
      <4>2. Len(chan[p].queue) > Low
        BY <1>2, <3>3, <4>1
      <4>3. chan[p].queue # <<>>
        BY <1>2, <3>3, <4>2
      <4>4. CASE chan[p].stream = "held"
        BY <1>2, <3>3, <4>2, <4>3, <4>4 DEF UnreadOf
      <4>5. CASE chan[p].stream # "held"
        BY <1>2, <3>3, <4>2, <4>3, <4>5 DEF UnreadOf
      <4> QED
        BY <4>4, <4>5
    <3>5. chan[p].phase # "closed"
      BY <2>1, <3>4 DEF Sound
    <3>6. Low \in Nat /\ Sound(chan[p], Low)
      BY <1>2, <2>1
    <3> HIDE DEF L
    <3>7. L # {} => chan[p].phase # "closed" /\ UnreadOf(chan[p]) > Low
      BY <3>4, <3>5
    <3> HIDE DEF CoreInv
    <3> QED
      BY <3>1, <3>2, <3>6, <3>7, ListenersSound
  <2>3. CASE ~(p \in Overloaded(a) /\ \A q \in Overloaded(a) : Rank[p] <= Rank[q])
    BY <1>1, <2>1, <2>3
  <2> QED
    BY <2>2, <2>3
<1>4. chan' \in [Readers -> Channel]
  BY <1>1, <1>3 DEF Sound
<1>5. /\ place \in PCs /\ place \notin Holding \cup {"locking", "checking", "asleep", "ready"}
      /\ pc[a] \notin Holding \cup {"locking", "done"} /\ a \notin Sinks
  BY <1>1, SinksDoNotYield DEF PCs, Holding
<1> HIDE DEF CoreInv
<1> QED
  BY <1>1, <1>2, <1>3, <1>4, <1>5, MoveKeeps

\* The stall timer takes the listeners of a away.
LEMMA StallKeeps ==
    ASSUME CoreInv, NEW a \in Actors, Stall(a)
    PROVE  CoreInv'
<1>1. /\ pc[a] = "throttled" /\ pc' = [pc EXCEPT ![a] = "failed"]
      /\ UNCHANGED <<mutex, lastSeq, subscribers, got, kernel>>
      /\ chan' = [p \in Readers |-> [chan[p] EXCEPT !.listeners = @ \ {a}]]
  BY DEF Stall
<1>2. Low \in Nat
  BY LowType
<1>3. \A p \in Readers :
         /\ Sound(chan'[p], Low)
         /\ chan'[p].phase = chan[p].phase /\ chan'[p].stream = chan[p].stream
         /\ chan'[p].listeners # {} => Policy("throttle")
  <2> TAKE p \in Readers
  <2> DEFINE L == chan[p].listeners \ {a}
  <2>1. Sound(chan[p], Low) /\ chan[p] \in Channel /\ (chan[p].listeners # {} => Policy("throttle"))
    BY DEF CoreInv, Sound, Places
  <2>2. chan'[p] = [chan[p] EXCEPT !.listeners = L]
    BY <1>1
  <2>3. L \in SUBSET Actors /\ (L # {} => chan[p].phase # "closed" /\ UnreadOf(chan[p]) > Low)
        /\ (L # {} => chan[p].listeners # {})
    BY <2>1 DEF Sound, Channel
  <2> HIDE DEF L, CoreInv
  <2>4. Sound(chan[p], Low)
    BY DEF CoreInv
  <2> QED
    BY <1>2, <2>1, <2>2, <2>3, <2>4, ListenersSound
<1>4. chan' \in [Readers -> Channel]
  BY <1>1, <1>3 DEF Sound
<1>5. "failed" \in PCs /\ "failed" \notin Holding \cup InBroadcast /\ pc[a] \notin Holding
  BY <1>1 DEF PCs, Holding, InBroadcast
<1> HIDE DEF CoreInv
<1> QED
  BY <1>1, <1>3, <1>4, <1>5, MoveKeeps

\* The end of a critical section that changes no channel.
LEMMA PlainReleaseKeeps ==
    ASSUME CoreInv, NEW a \in Actors, NEW next \in {"failed", "idle", "looping"},
           pc[a] \in Holding, Released(a, next),
           UNCHANGED <<lastSeq, subscribers, chan, got, kernel>>
    PROVE  CoreInv'
<1>1. chan' \in [Readers -> Channel]
  BY DEF CoreInv, TypeOK, Channel
<1>2. \A p \in Readers : /\ Sound(chan'[p], Low)
                         /\ chan'[p].phase = chan[p].phase /\ chan'[p].stream = chan[p].stream
                         /\ chan'[p].listeners = chan[p].listeners
  BY DEF CoreInv
<1> HIDE DEF CoreInv
<1> QED
  BY <1>1, <1>2, ReleasedKeeps

\* A blocking broadcast goes to sleep in the channels of its consumers.
LEMMA WaitForConsumersKeeps ==
    ASSUME CoreInv, NEW a \in Actors, WaitForConsumers(a)
    PROVE  CoreInv'
<1> DEFINE next == IF chan' = chan THEN Returned(a) ELSE "waiting"
<1>1. /\ pc[a] \in Holding /\ Released(a, next)
      /\ chan' = [p \in Readers |-> IF p \in Targets THEN WaitForDrain(chan[p], a) ELSE chan[p]]
      /\ UNCHANGED <<lastSeq, subscribers, got, kernel>>
  BY DEF WaitForConsumers, Holding
<1>2. next \in {"failed", "idle", "looping", "waiting"}
  BY DEF Returned
<1> HIDE DEF next
<1>3. \A p \in Readers :
         /\ Sound(chan'[p], Low)
         /\ chan'[p].phase = chan[p].phase /\ chan'[p].stream = chan[p].stream
         /\ chan'[p].listeners = chan[p].listeners
  <2> TAKE p \in Readers
  <2>1. Sound(chan[p], Low) /\ Low \in Nat
    BY LowType DEF CoreInv
  <2>2. CASE p \in Targets
    <3>1. chan'[p] = WaitForDrain(chan[p], a)
      BY <1>1, <2>2
    <3> HIDE DEF CoreInv
    <3> QED
      BY <2>1, <3>1, WaitForDrainSound
  <2>3. CASE p \notin Targets
    BY <1>1, <2>1, <2>3
  <2> QED
    BY <2>2, <2>3
<1>4. chan' \in [Readers -> Channel]
  BY <1>1, <1>3 DEF Sound
<1> HIDE DEF CoreInv
<1> QED
  BY <1>1, <1>2, <1>3, <1>4, ReleasedKeeps

\* The invariant holds at the start.
LEMMA CoreInit == Init => CoreInv
<1> SUFFICES ASSUME Init PROVE CoreInv
  OBVIOUS
<1>0. PICK setup \in Setups :
          /\ subscribers = setup.cast
          /\ kernel = [policy |-> setup.policy, processors |-> subscribers \cap Processors,
                       stopping |-> FALSE, cancelled |-> FALSE]
  BY DEF Init
<1>1. /\ subscribers \in Casts /\ subscribers \subseteq Readers
      /\ mutex = FreeMutex /\ lastSeq = 0
      /\ chan = [p \in Readers |-> IF p \in subscribers THEN NewChannel ELSE NoChannel]
      /\ got = [p \in Readers |-> <<>>]
      /\ pc = [a \in Actors |-> IF a \in subscribers THEN "running"
                                ELSE IF a \in Sources THEN "idle" ELSE "done"]
  <2>1. subscribers \in Casts
    BY <1>0 DEF Casts
  <2>2. subscribers \subseteq Readers
    BY <2>1, ActorsAssumption
  <2> QED
    BY <2>1, <2>2 DEF Init
<1>2. PICK policy \in Policies :
          kernel = [policy |-> policy, processors |-> subscribers \cap Processors,
                    stopping |-> FALSE, cancelled |-> FALSE]
  <2>1. setup.policy \in Policies
    BY DEF Policies
  <2> QED
    BY <1>0, <2>1
<1>3. /\ kernel \in [policy : Policies, processors : SUBSET Processors, stopping : BOOLEAN,
                     cancelled : BOOLEAN]
      /\ kernel.processors = subscribers \cap Processors /\ ~kernel.stopping
  BY <1>2
<1>4. <<>> \in Seq(Nat) /\ <<>> \in Seq(Actors) /\ Len(<<>>) = 0
  OBVIOUS
<1>5. /\ NewChannel \in Channel /\ NewChannel.queue = <<>> /\ NewChannel.stream = "idle"
      /\ NewChannel.phase = "open" /\ NewChannel.listeners = {}
      /\ NoChannel \in Channel /\ NoChannel.queue = <<>> /\ NoChannel.stream = "ended"
      /\ NoChannel.phase = "closed" /\ NoChannel.listeners = {}
  BY <1>4 DEF NewChannel, NoChannel, Channel
<1>6. \A p \in Readers : /\ chan[p] \in Channel /\ chan[p].queue = <<>> /\ chan[p].listeners = {}
                         /\ chan[p].phase = "open" <=> p \in subscribers
                         /\ chan[p].stream = "ended" => chan[p].phase # "open"
  BY <1>1, <1>5
<1>7. \A p \in Readers : Sound(chan[p], Low)
  BY <1>6 DEF Sound
<1>8. /\ pc \in [Actors -> PCs] /\ \A a \in Actors : pc[a] \in {"running", "idle", "done"}
      /\ \A p \in Readers : (pc[p] = "running" <=> p \in subscribers) /\ pc[p] \in {"running", "done"}
  BY <1>1, SinksDoNotYield, ActorsAssumption DEF PCs
<1>9. chan \in [Readers -> Channel] /\ got \in [Readers -> Seq(Nat)]
  BY <1>1, <1>4, <1>6
<1>10. TypeOK
  BY <1>1, <1>3, <1>4, <1>8, <1>9 DEF TypeOK, FreeMutex, PCs, Channel
<1>11. Consistent(mutex, Owners, Locking)
  <2>1. Owners = {} /\ Locking = {}
    BY <1>8 DEF Owners, Locking, Holding
  <2> QED
    BY <1>1, <2>1 DEF Consistent, FreeMutex
<1>12. Places
  BY <1>6, <1>8, SinksDoNotYield DEF Places, InBroadcast, Reading
<1>13. Lists
  <2>1. \A p \in Processors : p \in Readers
    BY DEF Readers
  <2>2. OnlyKernel => \A p \in Observers : p \notin subscribers
    <3>1. subscribers \cap Processors = kernel.processors
      BY <1>3
    <3>2. OnlyKernel => subscribers \subseteq Processors
      BY <1>1, <3>1 DEF OnlyKernel
    <3> QED
      BY <3>2, ActorsAssumption
  <2>3. \A p \in Observers : p \in Readers
    BY DEF Readers
  <2> QED
    BY <1>3, <1>6, <1>8, <2>1, <2>2, <2>3, SinksDoNotYield DEF Lists
<1> QED
  BY <1>7, <1>10, <1>11, <1>12, <1>13 DEF CoreInv

\* A token that is cancelled changes nothing but the flag.
LEMMA CancelChanges ==
    ASSUME TypeOK, Cancel
    PROVE  /\ UNCHANGED <<mutex, lastSeq, subscribers, chan, got, pc>>
           /\ kernel' \in [policy : Policies, processors : SUBSET Processors,
                           stopping : BOOLEAN, cancelled : BOOLEAN]
           /\ kernel'.policy = kernel.policy /\ kernel'.processors = kernel.processors
           /\ kernel'.stopping = kernel.stopping
BY DEF TypeOK, Cancel

LEMMA CancelKeeps ==
    ASSUME CoreInv, Cancel
    PROVE  CoreInv'
<1>1. TypeOK /\ Places /\ Lists
  BY DEF CoreInv
<1>2. /\ UNCHANGED <<mutex, lastSeq, subscribers, chan, got, pc>>
      /\ kernel'.policy = kernel.policy /\ kernel'.processors = kernel.processors
      /\ kernel'.stopping = kernel.stopping
  BY <1>1, CancelChanges
<1>3. TypeOK'
  BY <1>1, <1>2, CancelChanges DEF TypeOK
<1>4. Low' = Low /\ Owners' = Owners /\ Locking' = Locking
  BY <1>2 DEF Low, Policy, Owners, Locking
<1>5. Places' /\ Lists'
  BY <1>1, <1>2 DEF Places, Lists, Policy, OnlyKernel
<1> QED
  BY <1>2, <1>3, <1>4, <1>5 DEF CoreInv

\* Every step keeps it.
LEMMA CoreStep == CoreInv /\ [Next]_vars => CoreInv'
<1> SUFFICES ASSUME CoreInv, [Next]_vars PROVE CoreInv'
  OBVIOUS
<1>1. CASE UNCHANGED vars
  <2>1. /\ UNCHANGED <<mutex, lastSeq, subscribers, chan, got, pc, kernel>>
        /\ Low' = Low /\ Owners' = Owners /\ Locking' = Locking
    BY <1>1 DEF vars, Low, Policy, Owners, Locking
  <2>2. TypeOK' /\ Places' /\ Lists'
    BY <2>1 DEF CoreInv, TypeOK, Places, Lists, Policy, OnlyKernel
  <2> QED
    BY <2>1, <2>2 DEF CoreInv
<1>2. \A a \in Actors : pc[a] \in InBroadcast => a \in Producers \cup Sources
  BY DEF CoreInv, Places
<1>3. pc \in [Actors -> PCs]
  BY DEF CoreInv, TypeOK, PCs
<1>4. \A p \in Sinks : pc[p] \in Reading \cup {"failed", "done"}
  BY DEF CoreInv, Places
<1>5. CASE LoopStep
  <2>1. ASSUME NEW p \in Readers, YieldNothing(p) PROVE CoreInv'
    BY <2>1, SinksDoNotYield, PlainMoveKeeps DEF YieldNothing, Holding
  <2>2. ASSUME NEW p \in Readers, Loop(p) PROVE CoreInv'
    <3> DEFINE place == IF kernel.cancelled THEN "done" ELSE "running"
    <3>1. pc' = [pc EXCEPT ![p] = place] /\ place \in {"running", "done"} /\ pc[p] = "looping"
          /\ UNCHANGED <<mutex, lastSeq, subscribers, chan, got, kernel>>
      BY <2>2 DEF Loop
    <3> HIDE DEF place
    <3>2. p \notin Sinks /\ p \in Actors
      BY <1>4, <3>1, SinksDoNotYield DEF Reading
    <3> QED
      BY <3>1, <3>2, PlainMoveKeeps DEF Holding
  <2>3. ASSUME NEW p \in Readers, Throw(p) PROVE CoreInv'
    BY <2>3, SinksDoNotYield, PlainMoveKeeps DEF Throw, Holding
  <2>4. ASSUME NEW p \in Readers, StopObserving(p) PROVE CoreInv'
    BY <2>4, SinksDoNotYield, PlainMoveKeeps DEF StopObserving, Holding
  <2>5. ASSUME NEW s \in Sources, SourceExits(s) PROVE CoreInv'
    BY <2>5, SinksDoNotYield, PlainMoveKeeps DEF SourceExits, Holding
  <2>6. ASSUME NEW a \in Actors, Abort(a) PROVE CoreInv'
    <3>1. {a} \in SUBSET Actors /\ (\A b \in {a} : pc[b] = "failed") /\ ShutDown(TRUE, {a})
      BY <2>6 DEF Abort
    <3> HIDE DEF CoreInv
    <3> QED
      BY <3>1, ShutDownKeeps
  <2>7. ASSUME NEW force \in BOOLEAN, Stop(force) PROVE CoreInv'
    <3>1. ShutDown(force, {}) /\ {} \in SUBSET Actors
      BY <2>7 DEF Stop
    <3> HIDE DEF CoreInv
    <3> QED
      BY <3>1, ShutDownKeeps
  <2>8. CASE Quiescent
    BY <1>1, <2>8 DEF Quiescent
  <2>9. CASE Cancel
    BY <2>9, CancelKeeps
  <2> QED
    BY <1>5, <2>1, <2>2, <2>3, <2>4, <2>5, <2>6, <2>7, <2>8, <2>9,
       PullTurns, WakeTurns, TurnKeeps, ReturnKeeps, LeaveKeeps DEF LoopStep
<1>6. ASSUME NEW a \in Actors, Yields(a)
      PROVE  a \in Producers \cup Sources /\ pc[a] \in {"running", "idle"}
  BY <1>6 DEF Yields
<1>7. ASSUME NEW a \in Actors, Call(a) PROVE CoreInv'
  <2>1. CASE CallBlocking(a)
    BY <1>6, <2>1, RequestKeeps DEF CallBlocking, Holding
  <2>2. CASE CallFailFirst(a)
    <3>1. a \in Producers \cup Sources /\ pc[a] \in {"running", "idle"}
      BY <1>6, <2>2 DEF CallFailFirst
    <3>2. \/ /\ pc' = [pc EXCEPT ![a] = "failed"]
             /\ UNCHANGED <<mutex, lastSeq, subscribers, chan, got, kernel>>
          \/ Request(a)
      BY <2>2 DEF CallFailFirst
    <3> QED
      BY <3>1, <3>2, RequestKeeps, PlainMoveKeeps DEF Holding
  <2>3. CASE CallThrottle(a)
    BY <1>6, <2>3, ThrottleKeeps DEF CallThrottle
  <2> QED
    BY <1>7, <2>1, <2>2, <2>3 DEF Call
<1>8. ASSUME NEW a \in Actors, Continue(a) PROVE CoreInv'
  <2>1. CASE Check(a)
    <3>1. pc[a] = "checking" /\ UNCHANGED <<lastSeq, subscribers, chan, got, kernel>>
      BY <2>1 DEF Check
    <3>2. CASE AtLimit(a)
      BY <2>1, <3>1, <3>2, PlainReleaseKeeps DEF Check, Holding
    <3>3. CASE ~AtLimit(a)
      <4>1. pc' = [pc EXCEPT ![a] = "committing"] /\ UNCHANGED mutex
        BY <2>1, <3>3 DEF Check
      <4>2. /\ "committing" \in PCs /\ "committing" \in Holding /\ pc[a] \in Holding
            /\ a \in Producers \cup Sources /\ a \notin Sinks
        BY <1>2, <3>1, SinksDoNotYield DEF PCs, Holding, InBroadcast
      <4>3. /\ chan' \in [Readers -> Channel]
            /\ \A p \in Readers : /\ Sound(chan'[p], Low)
                                  /\ chan'[p].phase = chan[p].phase /\ chan'[p].stream = chan[p].stream
                                  /\ chan'[p].listeners # {} => Policy("throttle")
        BY <3>1 DEF CoreInv, TypeOK, Channel, Places
      <4> HIDE DEF CoreInv
      <4> QED
        BY <3>1, <4>1, <4>2, <4>3, MoveKeeps
    <3> QED
      BY <3>2, <3>3
  <2>2. CASE Recovered(a)
    <3>1. pc[a] = "throttled" /\ Throttle(a)
      BY <2>2 DEF Recovered
    <3>2. Policy("throttle") /\ a \in Producers \cup Sources
      BY <1>2, <3>1 DEF CoreInv, Places, InBroadcast
    <3> QED
      BY <3>1, <3>2, ThrottleKeeps
  <2>3. CASE Admit(a)
    BY <1>2, <2>3, RequestKeeps DEF Admit, Holding, InBroadcast
  <2>4. CASE FanOut(a)
    BY <2>4, FanOutKeeps
  <2>5. CASE CommitFails(a)
    BY <2>5, PlainReleaseKeeps DEF CommitFails, Holding
  <2>6. CASE Settle(a)
    <3>1. Returned(a) \in {"failed", "idle", "looping"}
      BY DEF Returned
    <3> QED
      BY <2>6, <3>1, PlainReleaseKeeps DEF Settle, Holding
  <2>7. CASE WaitForConsumers(a)
    BY <2>7, WaitForConsumersKeeps
  <2>8. CASE Drained(a)
    <3>1. /\ pc[a] = "waiting" /\ pc' = [pc EXCEPT ![a] = Returned(a)]
          /\ UNCHANGED <<mutex, lastSeq, subscribers, chan, got, kernel>>
          /\ Returned(a) \in {"idle", "looping"}
      BY <2>8 DEF Drained, Returned
    <3>2. a \notin Sinks
      BY <1>2, <3>1, SinksDoNotYield DEF InBroadcast
    <3> QED
      BY <3>1, <3>2, PlainMoveKeeps DEF Holding
  <2> QED
    BY <1>8, <2>1, <2>2, <2>3, <2>4, <2>5, <2>6, <2>7, <2>8 DEF Continue
<1> QED
  BY <1>1, <1>5, <1>7, <1>8, StallKeeps DEF Next
-----------------------------------------------------------------------------
\* Which broadcasts are past the check, and how many there can be.
LEMMA AdmittedBounded ==
    ASSUME CoreInv
    PROVE  /\ IsFiniteSet(Admitted) /\ Cardinality(Admitted) \in Nat
           /\ Cardinality(Producers \cup Sources) \in Nat
           /\ Cardinality(Admitted) <= Cardinality(Producers \cup Sources)
           /\ Bound \in Int
<1>1. Admitted \subseteq Producers \cup Sources
  BY DEF CoreInv, Places, Admitted, InBroadcast
<1>2. IsFiniteSet(Producers \cup Sources)
  <2>1. IsFiniteSet(Actors) /\ Producers \cup Sources \subseteq Actors
    BY ActorsAssumption, SinksDoNotYield
  <2> QED
    BY <2>1, FS_Subset
<1>3. /\ Cardinality(Producers \cup Sources) \in Nat /\ Cardinality(Admitted) \in Nat
      /\ IsFiniteSet(Admitted) /\ Cardinality(Admitted) <= Cardinality(Producers \cup Sources)
  BY <1>1, <1>2, FS_Subset, FS_CardinalityType
<1> QED
  BY <1>3, WaterMarksAssumption DEF Bound

\* The limits stay while no queue grows, no sink comes back and no broadcast is
\* let through.
LEMMA LimitsKept ==
    ASSUME CoreInv, Limits, CoreInv', kernel'.policy = kernel.policy,
           \A p \in Sinks : /\ Exposed(p)' => Exposed(p)
                            /\ Len(chan'[p].queue) <= Len(chan[p].queue),
           Policy("fail-first") => \A a \in Actors : pc'[a] = "committing" => pc[a] = "committing",
           Policy("throttle") => Admitted' \subseteq Admitted
    PROVE  Limits'
<1> SUFFICES ASSUME NEW p \in Sinks
             PROVE  /\ Policy("fail-first")' =>
                          /\ Len(chan'[p].queue) <= MaxQueueSize
                          /\ Exposed(p)' => \A a \in Actors : pc'[a] = "committing" =>
                                                Len(chan'[p].queue) < MaxQueueSize
                    /\ Policy("throttle")' =>
                          /\ Len(chan'[p].queue) <= Bound
                          /\ Exposed(p)' => Len(chan'[p].queue) + Cardinality(Admitted') <= Bound
  BY DEF Limits, Bound
<1>1. Len(chan'[p].queue) \in Nat /\ Len(chan[p].queue) \in Nat
      /\ Len(chan'[p].queue) <= Len(chan[p].queue)
  <2>1. p \in Readers /\ Sound(chan[p], Low) /\ Sound(chan'[p], Low')
    BY SinksDoNotYield DEF CoreInv
  <2> QED
    BY <2>1 DEF Sound, Channel
<1>2. \A name : Policy(name)' <=> Policy(name)
  BY DEF Policy
<1>3. CASE Policy("fail-first")
  <2>1. MaxQueueSize \in Nat /\ Len(chan[p].queue) <= MaxQueueSize
    BY <1>3, MaxQueueSizeAssumption DEF Limits
  <2>2. ASSUME Exposed(p)', NEW a \in Actors, pc'[a] = "committing"
        PROVE  Len(chan'[p].queue) < MaxQueueSize
    <3>1. Len(chan[p].queue) < MaxQueueSize
      BY <1>3, <2>2 DEF Limits
    <3> QED
      BY <1>1, <2>1, <3>1
  <2>3. ~Policy("throttle")
    BY <1>3 DEF Policy
  <2> QED
    BY <1>1, <1>2, <2>1, <2>2, <2>3
<1>4. CASE Policy("throttle")
  <2>1. Bound \in Int /\ Len(chan[p].queue) <= Bound
    BY <1>4, AdmittedBounded DEF Limits
  <2>2. Cardinality(Admitted) \in Nat /\ Cardinality(Admitted') \in Nat
        /\ Cardinality(Admitted') <= Cardinality(Admitted)
    <3>1. IsFiniteSet(Actors) /\ Admitted \subseteq Actors
      BY ActorsAssumption DEF Admitted
    <3>2. IsFiniteSet(Admitted)
      BY <3>1, FS_Subset
    <3>3. Admitted' \subseteq Admitted
      BY <1>4
    <3> HIDE DEF Admitted
    <3> QED
      BY <3>2, <3>3, FS_Subset, FS_CardinalityType
  <2>3. Exposed(p)' => Len(chan[p].queue) + Cardinality(Admitted) <= Bound
    BY <1>4 DEF Limits
  <2>4. ~Policy("fail-first")
    BY <1>4 DEF Policy
  <2> HIDE DEF Bound
  <2> QED
    BY <1>1, <1>2, <2>1, <2>2, <2>3, <2>4
<1> QED
  BY <1>2, <1>3, <1>4

\* A commit: whoever is reached was found below its limit.
LEMMA FanOutLimits ==
    ASSUME CoreInv, Limits, CoreInv', NEW a \in Actors, FanOut(a)
    PROVE  Limits'
<1> SUFFICES ASSUME NEW p \in Sinks
             PROVE  /\ Policy("fail-first")' =>
                          /\ Len(chan'[p].queue) <= MaxQueueSize
                          /\ Exposed(p)' => \A b \in Actors : pc'[b] = "committing" =>
                                                Len(chan'[p].queue) < MaxQueueSize
                    /\ Policy("throttle")' =>
                          /\ Len(chan'[p].queue) <= Bound
                          /\ Exposed(p)' => Len(chan'[p].queue) + Cardinality(Admitted') <= Bound
  BY DEF Limits, Bound
<1>1. /\ p \in Readers /\ p \in Actors /\ p # a /\ chan[p] \in Channel /\ Len(chan[p].queue) \in Nat
      /\ pc[p] \in Reading \cup {"failed", "done"} /\ (pc[p] = "done" => chan[p].phase # "open")
      /\ Consistent(mutex, Owners, Locking)
  <2>1. p \in Readers /\ p \in Actors /\ Sound(chan[p], Low)
    BY SinksDoNotYield DEF CoreInv
  <2>2. a \in Producers \cup Sources
    BY DEF FanOut, CoreInv, Places, InBroadcast
  <2> QED
    BY <2>1, <2>2, SinksDoNotYield DEF CoreInv, Places, Lists, Sound, Channel
<1>2. /\ pc[a] = "committing" /\ pc[p] # "failed" /\ UNCHANGED <<subscribers, kernel>>
      /\ chan'[p] = IF p \in subscribers THEN Enqueue(chan[p], lastSeq') ELSE chan[p]
      /\ pc' = [b \in Actors |-> IF b = a THEN "settling"
                                 ELSE IF b \in subscribers /\ pc[b] = "asleep"
                                      THEN "ready" ELSE pc[b]]
  BY <1>1 DEF FanOut, WokenByFanOut, NobodyInTransit
<1>3. \A name : Policy(name)' <=> Policy(name)
  BY <1>2 DEF Policy
<1>4. CASE ~Exposed(p)
  <2>1. chan'[p] = chan[p]
    BY <1>1, <1>2, <1>4 DEF Enqueue, Exposed
  <2>2. ~Exposed(p)'
    BY <1>1, <1>2, <1>4, <2>1 DEF Exposed, Reading
  <2> QED
    BY <1>3, <2>1, <2>2 DEF Limits
<1>5. CASE Exposed(p)
  <2>1. chan'[p].queue = Append(chan[p].queue, lastSeq') /\ Len(chan'[p].queue) = Len(chan[p].queue) + 1
    <3>1. chan'[p] = [chan[p] EXCEPT !.queue = Append(chan[p].queue, lastSeq')]
      BY <1>2, <1>5 DEF Enqueue, Exposed
    <3>2. chan[p].queue \in Seq(Nat) /\ lastSeq' \in Nat
      BY <1>1 DEF Channel, CoreInv, TypeOK
    <3> QED
      BY <1>1, <3>1, <3>2 DEF Channel
  <2>2. CASE Policy("fail-first")
    <3>1. Len(chan[p].queue) < MaxQueueSize /\ MaxQueueSize \in Nat
      BY <1>2, <1>5, <2>2, MaxQueueSizeAssumption DEF Limits
    <3>2. \A b \in Actors : pc'[b] # "committing"
      <4> SUFFICES ASSUME NEW b \in Actors, pc'[b] = "committing" PROVE FALSE
        OBVIOUS
      <4>1. b # a /\ pc[b] = "committing"
        BY <1>2
      <4>2. a \in Owners /\ b \in Owners
        BY <1>2, <4>1 DEF Owners, Holding
      <4> QED
        BY <1>1, <4>1, <4>2 DEF Consistent
    <3>3. ~Policy("throttle")
      BY <2>2 DEF Policy
    <3> QED
      BY <1>1, <1>3, <2>1, <3>1, <3>2, <3>3
  <2>3. CASE Policy("throttle")
    <3>1. Len(chan[p].queue) + Cardinality(Admitted) <= Bound /\ Bound \in Int
          /\ IsFiniteSet(Admitted) /\ Cardinality(Admitted) \in Nat
      BY <1>5, <2>3, AdmittedBounded DEF Limits
    <3>2. a \in Admitted /\ Admitted' = Admitted \ {a}
      BY <1>2 DEF Admitted
    <3>3. Cardinality(Admitted') = Cardinality(Admitted) - 1 /\ Cardinality(Admitted') \in Nat
      <4> HIDE DEF Admitted
      <4>1. IsFiniteSet(Admitted \ {a})
        BY <3>1, FS_Subset
      <4> QED
        BY <3>1, <3>2, <4>1, FS_RemoveElement, FS_CardinalityType
    <3>4. ~Policy("fail-first")
      BY <2>3 DEF Policy
    <3> HIDE DEF Bound
    <3> QED
      BY <1>1, <1>3, <2>1, <3>1, <3>3, <3>4
  <2> QED
    BY <1>3, <2>2, <2>3
<1> QED
  BY <1>4, <1>5

\* A broadcast passes the check of the fail-first policy.
LEMMA CheckedLimits ==
    ASSUME CoreInv, Limits, NEW a \in Producers \cup Sources, Policy("fail-first"), ~AtLimit(a),
           pc' = [pc EXCEPT ![a] = "committing"], UNCHANGED <<lastSeq, subscribers, chan, got, kernel>>
    PROVE  Limits'
<1>1. /\ pc \in [Actors -> PCs] /\ MaxQueueSize \in Nat /\ Policy("fail-first")' /\ ~Policy("throttle")'
  BY MaxQueueSizeAssumption DEF CoreInv, TypeOK, PCs, Policy
<1> SUFFICES ASSUME NEW p \in Sinks
             PROVE  /\ Len(chan[p].queue) <= MaxQueueSize
                    /\ Exposed(p)' => Len(chan[p].queue) < MaxQueueSize
  BY <1>1 DEF Limits
<1>2. p \in Processors /\ p \in Actors /\ p # a /\ a \in Actors
  BY SinksDoNotYield DEF Sinks
<1>3. Len(chan[p].queue) \in Nat
  <2>1. p \in Readers /\ Sound(chan[p], Low)
    BY SinksDoNotYield DEF CoreInv
  <2> QED
    BY <2>1 DEF Sound, Channel
<1>4. ASSUME Exposed(p)' PROVE Len(chan[p].queue) < MaxQueueSize
  <2>1. p \in subscribers \cap (Consuming \ {a})
    BY <1>1, <1>2, <1>4 DEF Exposed, Consuming, Reading
  <2> QED
    BY <1>1, <1>3, <2>1 DEF AtLimit
<1> QED
  BY <1>4 DEF Limits

\* A broadcast passes throttle(), or waits in it.
LEMMA ThrottledLimits ==
    ASSUME CoreInv, Limits, CoreInv', NEW a \in Producers \cup Sources, Policy("throttle"), Throttle(a),
           pc[a] \in {"running", "idle", "throttled"}
    PROVE  Limits'
<1>1. /\ pc \in [Actors -> PCs] /\ Policy("throttle")' /\ ~Policy("fail-first")'
      /\ a \in Actors /\ UNCHANGED <<subscribers, kernel>>
  BY SinksDoNotYield DEF CoreInv, TypeOK, PCs, Policy, Throttle
<1> SUFFICES ASSUME NEW p \in Sinks
             PROVE  /\ Len(chan'[p].queue) <= Bound
                    /\ Exposed(p)' => Len(chan'[p].queue) + Cardinality(Admitted') <= Bound
  BY <1>1 DEF Limits, Bound
<1>2. p \in Processors /\ p \in Actors /\ p # a /\ p \in Readers /\ Sound(chan[p], Low)
  BY SinksDoNotYield DEF Sinks, CoreInv
<1>3. /\ Len(chan[p].queue) \in Nat /\ chan'[p].queue = chan[p].queue /\ chan'[p].phase = chan[p].phase
      /\ pc'[p] = pc[p]
  BY <1>1, <1>2 DEF Throttle, Sound, Channel
<1>4. Len(chan[p].queue) <= Bound
  BY DEF Limits
<1>5. CASE Overloaded(a) = {}
  <2>1. ASSUME Exposed(p)' PROVE Len(chan[p].queue) + Cardinality(Admitted') <= Bound
    <3>1. p \in subscribers \cap (Consuming \ {a})
      BY <1>1, <1>2, <1>3, <2>1 DEF Exposed, Consuming, Reading
    <3>2. HighWaterMark \in Nat /\ ~(Len(chan[p].queue) >= HighWaterMark)
      BY <1>5, <3>1, WaterMarksAssumption DEF Overloaded
    <3>3. Len(chan[p].queue) <= HighWaterMark - 1
      BY <1>3, <3>2
    <3>4. /\ Cardinality(Admitted') \in Nat /\ Cardinality(Producers \cup Sources) \in Nat
          /\ Cardinality(Admitted') <= Cardinality(Producers \cup Sources)
      <4>1. Admitted' \subseteq Producers \cup Sources
        BY DEF CoreInv, Places, Admitted, InBroadcast
      <4>2. IsFiniteSet(Producers \cup Sources)
        <5>1. IsFiniteSet(Actors) /\ Producers \cup Sources \subseteq Actors
          BY ActorsAssumption, SinksDoNotYield
        <5> QED
          BY <5>1, FS_Subset
      <4> QED
        BY <4>1, <4>2, FS_Subset, FS_CardinalityType
    <3> QED
      BY <1>3, <3>2, <3>3, <3>4 DEF Bound
  <2> QED
    BY <1>3, <1>4, <2>1
<1>6. CASE Overloaded(a) # {}
  <2>1. pc' = [pc EXCEPT ![a] = "throttled"]
    BY <1>6 DEF Throttle
  <2>2. Admitted' = Admitted
    BY <1>1, <2>1 DEF Admitted
  <2>3. Exposed(p)' => Exposed(p)
    BY <1>1, <1>3 DEF Exposed
  <2> QED
    BY <1>3, <1>4, <2>2, <2>3 DEF Limits
<1> QED
  BY <1>5, <1>6

\* Channels of S are unsubscribed.
Unsubscribes(S, drain) ==
    /\ chan' = [p \in Readers |-> IF p \in S THEN Unsubscribe(chan[p], drain) ELSE chan[p]]
    /\ subscribers' \subseteq subscribers
    /\ UNCHANGED <<lastSeq, got>>
    /\ kernel'.processors = kernel.processors /\ kernel'.policy = kernel.policy

\* No event moves and no channel changes its phase.
Undisturbed ==
    /\ UNCHANGED <<lastSeq, subscribers, got>>
    /\ \A p \in Readers : chan'[p].queue = chan[p].queue /\ chan'[p].phase = chan[p].phase
    /\ kernel'.processors = kernel.processors /\ kernel'.policy = kernel.policy

\* A step turns a stream, unsubscribes channels, fans an event out or moves no
\* event.
LEMMA StepNames ==
    ASSUME CoreInv, [Next]_vars
    PROVE  \/ \E p \in Readers, ch \in Channel : Turns(p, ch)
           \/ \E p \in Readers : Return(p)
           \/ \E o \in Observers, drain \in BOOLEAN : Leave(o, drain)
           \/ \E force \in BOOLEAN : \E quitters : ShutDown(force, quitters)
           \/ \E a \in Actors : FanOut(a)
           \/ Undisturbed
<1>1. CASE UNCHANGED vars
  BY <1>1 DEF vars, Undisturbed
<1>2. ASSUME UNCHANGED <<lastSeq, subscribers, chan, got, kernel>> PROVE Undisturbed
  BY <1>2 DEF Undisturbed
<1>3. ASSUME NEW p \in Readers, Pull(p) \/ Wake(p) PROVE \E ch \in Channel : Turns(p, ch)
  BY <1>3, PullTurns, WakeTurns
<1>4. CASE LoopStep
  <2>1. ASSUME NEW p \in Readers, YieldNothing(p) \/ Loop(p) \/ Throw(p) \/ StopObserving(p)
        PROVE  Undisturbed
    BY <1>2, <2>1 DEF YieldNothing, Loop, Throw, StopObserving
  <2>2. ASSUME NEW s \in Sources, SourceExits(s) PROVE Undisturbed
    BY <1>2, <2>2 DEF SourceExits
  <2>3. CASE Quiescent
    BY <1>1, <2>3 DEF Quiescent
  <2>4. ASSUME NEW a \in Actors, Abort(a)
        PROVE  \E force \in BOOLEAN : \E quitters : ShutDown(force, quitters)
    BY <2>4 DEF Abort
  <2>5. ASSUME NEW force \in BOOLEAN, Stop(force)
        PROVE  \E f \in BOOLEAN : \E quitters : ShutDown(f, quitters)
    BY <2>5 DEF Stop
  <2>6. CASE Cancel
    BY <2>6, CancelChanges DEF CoreInv, Undisturbed
  <2> QED
    BY <1>3, <1>4, <2>1, <2>2, <2>3, <2>4, <2>5, <2>6 DEF LoopStep
<1>5. ASSUME NEW a \in Actors, Throttle(a) \/ Stall(a) PROVE Undisturbed
  <2>1. UNCHANGED <<lastSeq, subscribers, got, kernel>>
    BY <1>5 DEF Throttle, Stall
  <2>2. ASSUME NEW p \in Readers
        PROVE  chan'[p].queue = chan[p].queue /\ chan'[p].phase = chan[p].phase
    <3>1. chan[p] \in Channel
      BY DEF CoreInv, Sound
    <3>2. PICK L : chan'[p] = chan[p] \/ chan'[p] = [chan[p] EXCEPT !.listeners = L]
      BY <1>5 DEF Throttle, Stall
    <3> QED
      BY <3>1, <3>2 DEF Channel
  <2> QED
    BY <2>1, <2>2 DEF Undisturbed
<1>6. ASSUME NEW a \in Actors, WaitForConsumers(a) PROVE Undisturbed
  <2>1. UNCHANGED <<lastSeq, subscribers, got, kernel>>
    BY <1>6 DEF WaitForConsumers
  <2>2. ASSUME NEW p \in Readers
        PROVE  chan'[p].queue = chan[p].queue /\ chan'[p].phase = chan[p].phase
    <3>1. chan[p] \in Channel
      BY DEF CoreInv, Sound
    <3>2. PICK d : chan'[p] = chan[p] \/ chan'[p] = [chan[p] EXCEPT !.drainers = d]
      BY <1>6 DEF WaitForConsumers, WaitForDrain
    <3> QED
      BY <3>1, <3>2 DEF Channel
  <2> QED
    BY <2>1, <2>2 DEF Undisturbed
<1>7. ASSUME NEW a \in Actors, Call(a) PROVE Undisturbed
  BY <1>2, <1>5, <1>7 DEF Call, CallBlocking, CallFailFirst, CallThrottle, Request
<1>8. ASSUME NEW a \in Actors, Continue(a) PROVE Undisturbed \/ FanOut(a)
  BY <1>2, <1>5, <1>6, <1>8 DEF Continue, Check, Recovered, Admit, Request, CommitFails, Settle, Drained
<1> QED
  BY <1>1, <1>4, <1>5, <1>7, <1>8 DEF Next

\* The same with one word for the three ways to unsubscribe.
LEMMA StepKinds ==
    ASSUME CoreInv, [Next]_vars
    PROVE  \/ \E p \in Readers, ch \in Channel : Turns(p, ch)
           \/ \E S \in SUBSET Readers, drain \in BOOLEAN : Unsubscribes(S, drain)
           \/ \E a \in Actors : FanOut(a)
           \/ Undisturbed
<1>1. ASSUME NEW p \in Readers, Return(p)
      PROVE  \E S \in SUBSET Readers, drain \in BOOLEAN : Unsubscribes(S, drain)
  <2>1. {p} \in SUBSET Readers /\ Unsubscribes({p}, FALSE)
    BY <1>1, SplicedSubset DEF Return, UnsubscribeAll, Unsubscribes
  <2> QED
    BY <2>1
<1>2. ASSUME NEW o \in Observers, NEW drain \in BOOLEAN, Leave(o, drain)
      PROVE  \E S \in SUBSET Readers, d \in BOOLEAN : Unsubscribes(S, d)
  <2>1. {o} \in SUBSET Readers /\ Unsubscribes({o}, drain)
    BY <1>2, SplicedSubset DEF Leave, UnsubscribeAll, Unsubscribes, Readers
  <2> QED
    BY <2>1
<1>3. ASSUME NEW force \in BOOLEAN, NEW quitters, ShutDown(force, quitters)
      PROVE  Undisturbed \/ \E S \in SUBSET Readers, drain \in BOOLEAN : Unsubscribes(S, drain)
  <2>1. /\ UNCHANGED <<lastSeq, got>>
        /\ kernel'.processors = kernel.processors /\ kernel'.policy = kernel.policy
        /\ kernel.processors \in SUBSET Readers
    BY <1>3 DEF ShutDown, CoreInv, TypeOK, Readers
  <2>2. CASE kernel.stopping
    BY <1>3, <2>1, <2>2 DEF ShutDown, Undisturbed
  <2>3. CASE ~kernel.stopping
    <3>1. Unsubscribes(kernel.processors, ~force)
      BY <1>3, <2>1, <2>3, SplicedSubset DEF ShutDown, UnsubscribeAll, Unsubscribes
    <3> QED
      BY <2>1, <3>1
  <2> QED
    BY <2>2, <2>3
<1> QED
  BY <1>1, <1>2, <1>3, StepNames

\* Other steps let no broadcast through.
NobodyPasses ==
    /\ Policy("fail-first") => \A a \in Actors : pc'[a] = "committing" => pc[a] = "committing"
    /\ Policy("throttle") => Admitted' \subseteq Admitted

\* The end of a critical section lets nobody past a check.
LEMMA ReleasedPasses ==
    ASSUME CoreInv, NEW a \in Actors, NEW next \in {"failed", "idle", "looping", "waiting"},
           pc[a] \in Holding, Released(a, next)
    PROVE  NobodyPasses
<1>1. /\ mutex \in [locked : BOOLEAN, waiters : Seq(Actors)] /\ Consistent(mutex, Owners, Locking)
      /\ a \in Owners
  BY DEF CoreInv, TypeOK, Owners
<1>2. mutex.locked
  BY <1>1 DEF Consistent
<1>3. WokenByUnlock(mutex) \subseteq Locking
  BY <1>1, <1>2, UnlockHandsOver
<1>4. \A b \in Actors : \/ pc'[b] = pc[b]
                        \/ pc'[b] = Entry /\ pc[b] = "locking"
                        \/ pc'[b] = next
  BY <1>3 DEF Released, Locking
<1>5. CASE Policy("fail-first")
  BY <1>4, <1>5 DEF NobodyPasses, Entry, Policy
<1>6. CASE ~Policy("fail-first")
  BY <1>4, <1>6 DEF NobodyPasses, Admitted
<1> QED
  BY <1>5, <1>6

\* Every step keeps the limits.
LEMMA LimitsStep ==
    ASSUME CoreInv, Limits, [Next]_vars
    PROVE  Limits'
<1>1. CoreInv' /\ pc \in [Actors -> PCs]
  BY CoreStep DEF CoreInv, TypeOK, PCs
<1>2. \A p \in Sinks : p \in Readers /\ p \in Actors /\ pc[p] \in Reading \cup {"failed", "done"}
  BY SinksDoNotYield DEF CoreInv, Places
<1>3. \A a \in Actors : pc[a] \in InBroadcast => a \in Producers \cup Sources
  BY DEF CoreInv, Places
<1>4. ASSUME \A a \in Actors : ~FanOut(a), NobodyPasses,
             \A p \in Sinks : pc'[p] \in Reading => pc[p] \in Reading
      PROVE  Limits'
  <2>1. kernel'.policy = kernel.policy /\ subscribers' \subseteq subscribers
    BY <1>4, StepKinds DEF Turns, Unsubscribes, Undisturbed
  <2>2. ASSUME NEW p \in Sinks
        PROVE  /\ Len(chan'[p].queue) <= Len(chan[p].queue)
               /\ chan'[p].phase = "open" => chan[p].phase = "open"
    <3>1. /\ p \in Readers /\ chan[p] \in Channel /\ Sound(chan[p], Low) /\ Low \in Nat
          /\ Len(chan[p].queue) \in Nat /\ Len(chan'[p].queue) \in Nat
          /\ chan \in [Readers -> Channel]
      BY <1>1, <1>2, LowType DEF CoreInv, TypeOK, Sound, Channel
    <3>2. ASSUME NEW q \in Readers, NEW ch \in Channel, Turns(q, ch)
          PROVE  /\ Len(chan'[p].queue) <= Len(chan[p].queue)
                 /\ chan'[p].phase = "open" => chan[p].phase = "open"
      <4>1. chan'[p] = (IF p = q THEN ch ELSE chan[p]) /\ Turned(chan[q], ch)
        BY <3>1, <3>2 DEF Turns, Receive
      <4>2. ASSUME p = q, ch.queue = Tail(chan[p].queue), chan[p].queue # <<>>
            PROVE  Len(ch.queue) <= Len(chan[p].queue)
        BY <3>1, <4>2 DEF Channel
      <4> QED
        BY <3>1, <4>1, <4>2 DEF Turned
    <3>3. ASSUME NEW S \in SUBSET Readers, NEW drain \in BOOLEAN, Unsubscribes(S, drain)
          PROVE  /\ Len(chan'[p].queue) <= Len(chan[p].queue)
                 /\ chan'[p].phase = "open" => chan[p].phase = "open"
      <4>1. CASE p \in S
        <5>1. chan'[p] = Unsubscribe(chan[p], drain)
          BY <3>1, <3>3, <4>1 DEF Unsubscribes
        <5> HIDE DEF CoreInv
        <5>2. chan'[p].phase # "open" /\ (chan'[p].queue = <<>> \/ chan'[p].queue = chan[p].queue)
          BY <3>1, <5>1, UnsubscribeSound
        <5> QED
          BY <3>1, <5>2
      <4>2. CASE p \notin S
        BY <3>1, <3>3, <4>2 DEF Unsubscribes
      <4> QED
        BY <4>1, <4>2
    <3>4. CASE Undisturbed
      BY <3>1, <3>4 DEF Undisturbed
    <3> QED
      BY <1>4, <3>2, <3>3, <3>4, StepKinds
  <2>3. \A p \in Sinks : Exposed(p)' => Exposed(p)
    BY <1>4, <2>1, <2>2 DEF Exposed
  <2> QED
    BY <1>1, <1>4, <2>1, <2>2, <2>3, LimitsKept DEF NobodyPasses
<1>5. CASE \E a \in Actors : FanOut(a)
  BY <1>1, <1>5, FanOutLimits
<1>6. ASSUME NEW a \in Actors, Yields(a)
      PROVE  a \in Producers \cup Sources /\ pc[a] \in {"running", "idle"}
  BY <1>6 DEF Yields
<1>7. ASSUME NEW a \in Producers \cup Sources, NEW place, pc' = [pc EXCEPT ![a] = place]
      PROVE  \A p \in Sinks : pc'[p] \in Reading => pc[p] \in Reading
  <2>1. \A p \in Sinks : pc'[p] = pc[p]
    BY <1>1, <1>2, <1>7, SinksDoNotYield
  <2> QED
    BY <2>1
<1>8. ASSUME NEW a \in Actors, NEW next \in {"failed", "idle", "looping", "waiting"},
             pc[a] \in Holding, Released(a, next)
      PROVE  /\ NobodyPasses
             /\ \A p \in Sinks : pc'[p] \in Reading => pc[p] \in Reading
  <2>1. \A p \in Sinks : pc'[p] = pc[p] \/ pc'[p] \in {"checking", "committing"} \/ pc'[p] = next
    BY <1>2, <1>8 DEF Released, Entry
  <2> QED
    BY <1>8, <2>1, ReleasedPasses DEF Reading
<1> SUFFICES ASSUME \A a \in Actors : ~FanOut(a) PROVE Limits'
  BY <1>5
<1>9. CASE UNCHANGED vars
  <2>1. NobodyPasses /\ \A p \in Sinks : pc'[p] \in Reading => pc[p] \in Reading
    BY <1>9 DEF vars, NobodyPasses, Admitted
  <2> QED
    BY <1>4, <2>1
<1>10. CASE LoopStep
  <2>1. ASSUME \A a \in Actors : pc'[a] = pc[a] \/ pc'[a] \in {"looping", "failed", "done"}
                                 \/ (pc[a] \in Reading /\ pc'[a] \in Reading)
        PROVE  Limits'
    <3>1. NobodyPasses
      BY <2>1 DEF NobodyPasses, Admitted, Reading
    <3>2. \A p \in Sinks : pc'[p] \in Reading => pc[p] \in Reading
      BY <1>2, <2>1 DEF Reading
    <3> QED
      BY <1>4, <3>1, <3>2
  <2>2. ASSUME NEW p \in Readers, Pull(p) \/ Wake(p) PROVE Limits'
    BY <1>1, <2>1, <2>2 DEF Pull, Wake, Receive, Reading
  <2>3. ASSUME NEW p \in Readers, YieldNothing(p) \/ Throw(p) \/ StopObserving(p) PROVE Limits'
    BY <1>1, <2>1, <2>3 DEF YieldNothing, Throw, StopObserving
  <2>4. ASSUME NEW p \in Readers, Loop(p) PROVE Limits'
    <3>1. p \notin Sinks /\ pc[p] = "looping"
      BY <1>2, <2>4 DEF Loop, Reading
    <3>2. \A a \in Actors : a # p => pc'[a] = pc[a]
      BY <1>1, <2>4 DEF Loop
    <3>3. pc'[p] \in {"done", "running"}
      BY <1>1, <2>4, SinksDoNotYield DEF Loop
    <3>4. NobodyPasses
      BY <3>2, <3>3 DEF NobodyPasses, Admitted
    <3> QED
      BY <1>2, <1>4, <3>1, <3>2, <3>4
  <2>5. ASSUME NEW s \in Sources, SourceExits(s) PROVE Limits'
    BY <1>1, <2>1, <2>5 DEF SourceExits
  <2>6. ASSUME NEW S, NEW drain, NEW control, UnsubscribeAll(S, drain, control),
               \A a \in Actors : control[a] = pc[a] \/ control[a] = "done"
        PROVE  Limits'
    BY <1>1, <2>1, <2>6 DEF UnsubscribeAll, Reading
  <2>7. ASSUME NEW p \in Readers, Return(p) PROVE Limits'
    <3>1. UnsubscribeAll({p}, FALSE, [pc EXCEPT ![p] = "done"])
          /\ \A a \in Actors : [pc EXCEPT ![p] = "done"][a] = pc[a] \/ [pc EXCEPT ![p] = "done"][a] = "done"
      BY <1>1, <2>7 DEF Return
    <3> QED
      BY <2>6, <3>1
  <2>8. ASSUME NEW o \in Observers, NEW drain \in BOOLEAN, Leave(o, drain) PROVE Limits'
    BY <2>6, <2>8 DEF Leave
  <2>9. ASSUME NEW force \in BOOLEAN, NEW quitters, ShutDown(force, quitters) PROVE Limits'
    <3> DEFINE control == [a \in Actors |-> IF a \in quitters THEN "done" ELSE pc[a]]
    <3>1. \A a \in Actors : control[a] = pc[a] \/ control[a] = "done"
      OBVIOUS
    <3>2. (pc' = control) \/ UnsubscribeAll(kernel.processors, ~force, control)
      BY <2>9 DEF ShutDown
    <3> HIDE DEF control
    <3> QED
      BY <2>1, <2>6, <3>1, <3>2
  <2>10. ASSUME NEW a \in Actors, Abort(a) PROVE Limits'
    BY <2>9, <2>10 DEF Abort
  <2>11. ASSUME NEW force \in BOOLEAN, Stop(force) PROVE Limits'
    BY <2>9, <2>11 DEF Stop
  <2>12. CASE Cancel
    BY <2>1, <2>12 DEF Cancel
  <2> QED
    BY <1>9, <1>10, <2>2, <2>3, <2>4, <2>5, <2>7, <2>8, <2>10, <2>11, <2>12
       DEF LoopStep, Quiescent
<1>11. ASSUME NEW a \in Producers \cup Sources, Request(a), ~Policy("fail-first"),
              Policy("throttle") => pc[a] = "admitted"
       PROVE  Limits'
  <2>1. NobodyPasses
    BY <1>1, <1>11 DEF Request, NobodyPasses, Admitted
  <2> QED
    BY <1>4, <1>7, <1>11, <2>1 DEF Request
<1>12. ASSUME NEW a \in Producers \cup Sources, NEW place \in {"failed", "idle", "looping"},
              pc' = [pc EXCEPT ![a] = place]
       PROVE  Limits'
  <2>1. NobodyPasses
    BY <1>1, <1>12 DEF NobodyPasses, Admitted
  <2> QED
    BY <1>4, <1>7, <1>12, <2>1
<1>13. ASSUME NEW a \in Actors, Call(a) PROVE Limits'
  <2>1. a \in Producers \cup Sources /\ pc[a] \in {"running", "idle"}
    BY <1>6, <1>13 DEF Call, CallBlocking, CallFailFirst, CallThrottle
  <2>2. CASE CallBlocking(a)
    BY <1>11, <2>1, <2>2 DEF CallBlocking, Policy
  <2>3. CASE CallFailFirst(a)
    <3>1. CASE ~mutex.locked /\ AtLimit(a)
      BY <1>12, <2>1, <2>3, <3>1 DEF CallFailFirst
    <3>2. CASE mutex.locked
      <4>1. pc' = [pc EXCEPT ![a] = "locking"] /\ Policy("fail-first") /\ ~Policy("throttle")
        BY <2>3, <3>2 DEF CallFailFirst, Request, Policy
      <4>2. NobodyPasses
        BY <1>1, <4>1 DEF NobodyPasses
      <4> QED
        BY <1>4, <1>7, <2>1, <4>1, <4>2
    <3>3. CASE ~mutex.locked /\ ~AtLimit(a)
      BY <2>1, <2>3, <3>3, CheckedLimits DEF CallFailFirst, Request
    <3> QED
      BY <3>1, <3>2, <3>3
  <2>4. CASE CallThrottle(a)
    BY <1>1, <2>1, <2>4, ThrottledLimits DEF CallThrottle
  <2> QED
    BY <1>13, <2>2, <2>3, <2>4 DEF Call
<1>14. ASSUME NEW a \in Actors, Continue(a) PROVE Limits'
  <2>1. CASE Check(a)
    <3>1. pc[a] = "checking" /\ a \in Producers \cup Sources /\ Policy("fail-first")
      BY <1>3, <2>1 DEF Check, InBroadcast, CoreInv, Places
    <3>2. CASE AtLimit(a)
      BY <1>4, <1>8, <2>1, <3>1, <3>2 DEF Check, Holding
    <3>3. CASE ~AtLimit(a)
      BY <2>1, <3>1, <3>3, CheckedLimits DEF Check
    <3> QED
      BY <3>2, <3>3
  <2>2. CASE Recovered(a)
    <3>1. pc[a] = "throttled" /\ Throttle(a)
      BY <2>2 DEF Recovered
    <3>2. Policy("throttle") /\ a \in Producers \cup Sources
      BY <1>3, <3>1 DEF CoreInv, Places, InBroadcast
    <3> QED
      BY <1>1, <3>1, <3>2, ThrottledLimits
  <2>3. CASE Admit(a)
    <3>1. pc[a] = "admitted" /\ a \in Producers \cup Sources /\ Policy("throttle")
      BY <1>3, <2>3 DEF Admit, InBroadcast, CoreInv, Places
    <3> QED
      BY <1>11, <2>3, <3>1 DEF Admit, Policy
  <2>4. CASE CommitFails(a)
    BY <1>4, <1>8, <2>4 DEF CommitFails, Holding
  <2>5. CASE Settle(a)
    <3>1. Returned(a) \in {"failed", "idle", "looping", "waiting"}
      BY DEF Returned
    <3> QED
      BY <1>4, <1>8, <2>5, <3>1 DEF Settle, Holding
  <2>6. CASE WaitForConsumers(a)
    <3>1. PICK next : next \in {"failed", "idle", "looping", "waiting"} /\ Released(a, next)
                      /\ pc[a] \in Holding
      BY <2>6 DEF WaitForConsumers, Returned, Holding
    <3> QED
      BY <1>4, <1>8, <3>1
  <2>7. CASE Drained(a)
    <3>1. pc[a] = "waiting" /\ pc' = [pc EXCEPT ![a] = Returned(a)]
          /\ Returned(a) \in {"failed", "idle", "looping"}
      BY <2>7 DEF Drained, Returned
    <3> QED
      BY <1>3, <1>12, <3>1 DEF InBroadcast
  <2> QED
    BY <1>14, <2>1, <2>2, <2>3, <2>4, <2>5, <2>6, <2>7 DEF Continue
<1>15. ASSUME NEW a \in Actors, Stall(a) PROVE Limits'
  BY <1>3, <1>12, <1>15 DEF Stall, InBroadcast
<1> QED
  BY <1>9, <1>10, <1>13, <1>14, <1>15 DEF Next

\* The limits hold at the start.
LEMMA LimitsInit == Init => Limits
<1> SUFFICES ASSUME Init, NEW p \in Sinks
             PROVE  /\ Policy("fail-first") =>
                          /\ Len(chan[p].queue) <= MaxQueueSize
                          /\ Exposed(p) => \A a \in Actors : pc[a] = "committing" =>
                                               Len(chan[p].queue) < MaxQueueSize
                    /\ Policy("throttle") =>
                          /\ Len(chan[p].queue) <= Bound
                          /\ Exposed(p) => Len(chan[p].queue) + Cardinality(Admitted) <= Bound
  BY DEF Limits
<1>1. Len(chan[p].queue) = 0
  BY SinksDoNotYield DEF Init, NewChannel, NoChannel
<1>2. \A a \in Actors : pc[a] \in {"running", "idle", "done"}
  BY DEF Init
<1>3. Admitted = {} /\ Cardinality(Admitted) = 0
  BY <1>2, FS_EmptySet DEF Admitted
<1>4. Bound \in Int /\ Bound >= 0 /\ MaxQueueSize >= 0
  <2>1. Cardinality(Producers \cup Sources) \in Nat
    BY CoreInit, AdmittedBounded
  <2> QED
    BY <2>1, WaterMarksAssumption, MaxQueueSizeAssumption DEF Bound
<1> HIDE DEF Bound
<1> QED
  BY <1>1, <1>2, <1>3, <1>4

\* The invariants hold.
LEMMA InvariantsHold == Spec => [](CoreInv /\ Limits)
<1>1. Init => CoreInv /\ Limits
  BY CoreInit, LimitsInit
<1>2. CoreInv /\ Limits /\ [Next]_vars => (CoreInv /\ Limits)'
  BY CoreStep, LimitsStep
<1> QED
  BY <1>1, <1>2, PTL DEF Spec

\* The variables keep their types, for any processors, observers and bounds.
THEOREM TypeOKHolds == Spec => []TypeOK
<1>1. CoreInv => TypeOK
  BY DEF CoreInv
<1> QED
  BY <1>1, InvariantsHold, PTL

\* The queue of a processor that never yields keeps to the limit of the
\* fail-first policy and overshoots that of the throttle policy by one event per
\* broadcaster at most, for any limits and any number of broadcasters.
THEOREM QueuesKeepToLimitHolds == Spec => []QueuesKeepToLimit
<1>1. Limits => QueuesKeepToLimit
  BY DEF Limits, QueuesKeepToLimit, Sinks, Bound
<1> QED
  BY <1>1, InvariantsHold, PTL

\* A broadcaster that waits for a channel's recovery waits for one that still has
\* an acknowledgement to come, for any water marks and any number of channels.
THEOREM NoRecoveryIsLostHolds == Spec => []NoRecoveryIsLost
<1>1. CoreInv => NoRecoveryIsLost
  <2> SUFFICES ASSUME CoreInv, NEW p \in Readers, chan[p].listeners # {}
               PROVE  chan[p].phase # "closed" /\ Unread(p) > LowWaterMark
    BY DEF NoRecoveryIsLost
  <2>1. Sound(chan[p], Low) /\ Low = LowWaterMark
    BY DEF CoreInv, Places, Low
  <2> QED
    BY <2>1 DEF Sound, Unread, UnreadOf
<1> QED
  BY <1>1, InvariantsHold, PTL
-----------------------------------------------------------------------------
\* The broadcast between its fan-out and the end of its critical section.
Settling == {a \in Actors : pc[a] = "settling"}
Pending == IF Settling = {} THEN 0 ELSE 1

\* Each broadcaster asleep in a channel has an event of its reader to wake it.
Covered(ch) == ch.phase # "closed" => Len(ch.drainers) <= UnreadOf(ch)

\* There is one for another broadcaster as well, should it have to sleep.
Spare(ch) == ch.phase = "open" /\ ch.queue # <<>> => Len(ch.drainers) + 1 <= UnreadOf(ch)

\* All but n of the events that wait have a broadcaster that waits for them.
Behind(ch, n) == Len(ch.queue) <= Len(ch.drainers) + n

\* The invariant behind WaitersMatchBacklog: while a broadcast is settled, every
\* channel that it may sleep in has an event to spare.
Awaited ==
    /\ \A p \in Readers : Covered(chan[p])
    /\ Settling # {} => \A p \in subscribers : Spare(chan[p])
    /\ Policy("blocking") => \A p \in Sinks : Exposed(p) => Behind(chan[p], Pending)

\* A step of the channel that leaves nobody asleep for good.
Eases(ch, new) ==
    /\ new.phase = "open" => ch.phase = "open"
    /\ Covered(ch) => Covered(new) /\ (Spare(ch) => Spare(new))
    /\ new.phase = "open" => \A n \in Nat : Behind(ch, n) => Behind(new, n)

\* The queue and the drainers of a channel are finite.
LEMMA LengthsInChannel ==
    ASSUME NEW ch \in Channel
    PROVE  /\ ch.queue \in Seq(Nat) /\ Len(ch.queue) \in Nat /\ UnreadOf(ch) \in Nat
           /\ ch.drainers \in Seq(Actors) /\ Len(ch.drainers) \in Nat
           /\ ch.queue = <<>> <=> Len(ch.queue) = 0
<1>1. ch.queue \in Seq(Nat) /\ ch.drainers \in Seq(Actors)
  BY DEF Channel
<1>2. Len(ch.queue) \in Nat /\ Len(ch.drainers) \in Nat /\ (ch.queue = <<>> <=> Len(ch.queue) = 0)
  BY <1>1, EmptySeq, LenProperties
<1>3. CASE ch.stream = "held"
  BY <1>1, <1>2, <1>3 DEF UnreadOf
<1>4. CASE ch.stream # "held"
  BY <1>1, <1>2, <1>4 DEF UnreadOf
<1> QED
  BY <1>3, <1>4

\* The listeners do not matter.
LEMMA SameEases ==
    ASSUME NEW ch, NEW new, new.queue = ch.queue, new.stream = ch.stream,
           new.phase = ch.phase, new.drainers = ch.drainers
    PROVE  Eases(ch, new)
  BY DEF Eases, Covered, Spare, Behind, UnreadOf

\* A turn of the loop of streamEvents() moves an event from the queue to the reader.
LEMMA AdvanceEases ==
    ASSUME NEW ch \in Channel, ch.stream # "held"
    PROVE  Eases(ch, Advance(ch))
<1> DEFINE queue == Tail(ch.queue)
           ended == [ch EXCEPT !.stream = "ended"]
           next == [ch EXCEPT !.queue = queue, !.stream = "held"]
<1>1. /\ ch.queue \in Seq(Nat) /\ Len(ch.queue) \in Nat /\ Len(ch.drainers) \in Nat
      /\ UnreadOf(ch) = Len(ch.queue)
  <2>1. ch.queue \in Seq(Nat) /\ Len(ch.queue) \in Nat /\ Len(ch.drainers) \in Nat
    BY LengthsInChannel
  <2> QED
    BY <2>1 DEF UnreadOf
<1>2. Advance(ch) \in {ended, ch} \/ (Advance(ch) = next /\ ch.queue # <<>>)
  BY DEF Advance
<1>3. Eases(ch, ended)
  <2>1. ended.queue = ch.queue /\ ended.phase = ch.phase /\ ended.drainers = ch.drainers
        /\ ended.stream = "ended"
    BY DEF Channel
  <2> HIDE DEF ended
  <2>2. UnreadOf(ended) = UnreadOf(ch)
    BY <1>1, <2>1 DEF UnreadOf
  <2> QED
    BY <2>1, <2>2 DEF Eases, Covered, Spare, Behind
<1>4. Eases(ch, ch)
  BY SameEases
<1>5. ASSUME ch.queue # <<>> PROVE Eases(ch, next)
  <2>1. Len(queue) = Len(ch.queue) - 1 /\ Len(queue) \in Nat
    BY <1>1, <1>5
  <2> HIDE DEF queue
  <2>2. /\ next.queue = queue /\ next.phase = ch.phase /\ next.drainers = ch.drainers
        /\ next.stream = "held"
    BY DEF Channel
  <2> HIDE DEF next
  <2>3. UnreadOf(next) = UnreadOf(ch)
    BY <1>1, <2>1, <2>2 DEF UnreadOf
  <2>4. Covered(ch) => Covered(next)
    BY <2>2, <2>3 DEF Covered
  <2>5. Spare(ch) => Spare(next)
    BY <1>5, <2>2, <2>3 DEF Spare
  <2>6. ASSUME NEW n \in Nat, Behind(ch, n) PROVE Behind(next, n)
    BY <1>1, <2>1, <2>2, <2>6 DEF Behind
  <2> QED
    BY <2>2, <2>4, <2>5, <2>6 DEF Eases
<1> HIDE DEF ended, next
<1> QED
  BY <1>2, <1>3, <1>4, <1>5

\* next(): the acknowledgement wakes one broadcaster, and the turn after it takes
\* one event from the queue.
LEMMA PulledEases ==
    ASSUME NEW ch \in Channel, NEW low \in Nat
    PROVE  Eases(ch, Pulled(ch, low))
<1> DEFINE queue == ch.queue
           drainers == IF ch.drainers = <<>> THEN ch.drainers ELSE Tail(ch.drainers)
           listeners == IF Len(queue) <= low THEN {} ELSE ch.listeners
           ack == [ch EXCEPT !.stream = "idle", !.drainers = drainers, !.listeners = listeners]
           closed == [Close(ch) EXCEPT !.stream = "ended"]
<1>1. /\ queue \in Seq(Nat) /\ Len(queue) \in Nat /\ Len(ch.drainers) \in Nat
      /\ queue = <<>> <=> Len(queue) = 0
  BY LengthsInChannel
<1>2. CASE ClosesOnPull(ch)
  <2>1. Pulled(ch, low) = closed /\ ch.phase # "open"
    BY <1>2 DEF Pulled, ClosesOnPull
  <2>2. closed.phase = "closed"
    BY DEF Close, Channel
  <2> HIDE DEF closed
  <2> QED
    BY <2>1, <2>2 DEF Eases, Covered, Spare
<1>3. CASE ~ClosesOnPull(ch) /\ ch.stream # "held"
  <2>1. Pulled(ch, low) = Advance(ch)
    BY <1>3 DEF Pulled, Acknowledge
  <2> QED
    BY <1>3, <2>1, AdvanceEases
<1>4. CASE ~ClosesOnPull(ch) /\ ch.stream = "held"
  <2>1. Pulled(ch, low) = Advance(ack)
    BY <1>4 DEF Pulled, Acknowledge
  <2>2. /\ drainers \in Seq(Actors) /\ Len(drainers) \in Nat
        /\ Len(drainers) = IF Len(ch.drainers) = 0 THEN 0 ELSE Len(ch.drainers) - 1
    <3>1. ch.drainers \in Seq(Actors)
      BY DEF Channel
    <3> QED
      BY <1>1, <3>1
  <2>3. listeners \subseteq Actors
    BY DEF Channel
  <2> HIDE DEF drainers, listeners
  <2>4. /\ ack \in Channel /\ ack.stream = "idle" /\ ack.queue = queue /\ ack.phase = ch.phase
        /\ ack.drainers = drainers
    BY <2>2, <2>3 DEF Channel
  <2> HIDE DEF ack
  <2>5. Eases(ack, Advance(ack))
    BY <2>4, AdvanceEases
  <2>6. UnreadOf(ch) = Len(queue) + 1 /\ UnreadOf(ack) = Len(queue)
    BY <1>1, <1>4, <2>4 DEF UnreadOf
  <2>7. Covered(ch) => Covered(ack)
    BY <1>1, <2>2, <2>4, <2>6 DEF Covered
  <2>8. Spare(ch) => Spare(ack)
    BY <1>1, <2>2, <2>4, <2>6 DEF Spare
  <2>9. ASSUME NEW n \in Nat, Behind(ch, n), ch.phase = "open"
        PROVE  Behind(Advance(ack), n)
    <3> DEFINE rest == Tail(queue)
               next == [ack EXCEPT !.queue = rest, !.stream = "held"]
    <3>1. CASE queue # <<>>
      <4>1. Advance(ack) = next
        BY <2>4, <2>9, <3>1 DEF Advance
      <4>2. Len(rest) = Len(queue) - 1 /\ Len(rest) \in Nat
        BY <1>1, <3>1
      <4> HIDE DEF rest
      <4>3. next.queue = rest /\ next.drainers = drainers
        BY <2>4 DEF Channel
      <4> HIDE DEF next
      <4>4. Len(queue) <= Len(ch.drainers) + n
        BY <2>9 DEF Behind
      <4>5. Len(rest) <= Len(drainers) + n
        BY ONLY <1>1, <2>2, <4>2, <4>4, n \in Nat
      <4> QED
        BY <4>1, <4>3, <4>5 DEF Behind
    <3>2. CASE queue = <<>>
      <4>1. Advance(ack) = ack
        BY <2>4, <2>9, <3>2 DEF Advance
      <4> QED
        BY <1>1, <2>2, <2>4, <3>2, <4>1 DEF Behind
    <3> QED
      BY <3>1, <3>2
  <2> QED
    BY <2>1, <2>4, <2>5, <2>7, <2>8, <2>9 DEF Eases
<1> QED
  BY <1>2, <1>3, <1>4

\* unsubscribe() wakes everybody or leaves the events that wake them.
LEMMA UnsubscribeEases ==
    ASSUME NEW ch \in Channel, ch.phase = "closed" => ch.queue = <<>>, NEW drain
    PROVE  Eases(ch, Unsubscribe(ch, drain))
<1> DEFINE draining == [ch EXCEPT !.phase = "draining"]
<1>1. CASE ClosesAtOnce(ch, drain)
  <2>1. Unsubscribe(ch, drain) = Close(ch) /\ Close(ch).phase = "closed"
    BY <1>1 DEF Unsubscribe, Close, Channel
  <2> QED
    BY <2>1 DEF Eases, Covered, Spare
<1>2. CASE ~ClosesAtOnce(ch, drain)
  <2>1. Unsubscribe(ch, drain) = draining /\ ch.phase # "closed"
    BY <1>2 DEF Unsubscribe, ClosesAtOnce
  <2>2. /\ draining.queue = ch.queue /\ draining.phase = "draining" /\ draining.drainers = ch.drainers
        /\ draining.stream = ch.stream
    BY DEF Channel
  <2> HIDE DEF draining
  <2>3. UnreadOf(draining) = UnreadOf(ch)
    BY <2>2 DEF UnreadOf
  <2>4. Covered(ch) => Covered(draining)
    BY <2>1, <2>2, <2>3 DEF Covered
  <2>5. Spare(draining)
    BY <2>2 DEF Spare
  <2> QED
    BY <2>1, <2>2, <2>4, <2>5 DEF Eases
<1> QED
  BY <1>1, <1>2

\* The step of a channel that gets an event.
LEMMA EnqueueAwaited ==
    ASSUME NEW ch \in Channel, NEW event \in Nat, Covered(ch)
    PROVE  LET new == Enqueue(ch, event)
           IN  /\ Covered(new) /\ Spare(new) /\ new.phase = ch.phase
               /\ Behind(ch, 0) => Behind(new, 1)
<1> DEFINE queue == Append(ch.queue, event)
           new == [ch EXCEPT !.queue = queue]
<1>1. /\ ch.queue \in Seq(Nat) /\ Len(ch.queue) \in Nat /\ Len(ch.drainers) \in Nat
      /\ UnreadOf(ch) \in Nat
  BY LengthsInChannel
<1>2. CASE ch.phase # "open"
  BY <1>1, <1>2 DEF Enqueue, Spare, Behind
<1>3. CASE ch.phase = "open"
  <2>1. Enqueue(ch, event) = new
    BY <1>3 DEF Enqueue
  <2>2. Len(queue) = Len(ch.queue) + 1
    BY <1>1
  <2> HIDE DEF queue
  <2>3. /\ new.queue = queue /\ new.phase = ch.phase /\ new.stream = ch.stream
        /\ new.drainers = ch.drainers
    BY DEF Channel
  <2> HIDE DEF new
  <2>4. UnreadOf(new) = UnreadOf(ch) + 1
    <3>1. CASE ch.stream = "held"
      BY <1>1, <2>2, <2>3, <3>1 DEF UnreadOf
    <3>2. CASE ch.stream # "held"
      BY <1>1, <2>2, <2>3, <3>2 DEF UnreadOf
    <3> QED
      BY <3>1, <3>2
  <2>5. Len(ch.drainers) <= UnreadOf(ch)
    BY <1>3 DEF Covered
  <2>6. Len(new.drainers) + 1 <= UnreadOf(new)
    BY <1>1, <2>3, <2>4, <2>5
  <2>7. Covered(new) /\ Spare(new)
    BY <1>1, <2>3, <2>4, <2>5, <2>6 DEF Covered, Spare
  <2>8. Behind(ch, 0) => Behind(new, 1)
    BY <1>1, <2>2, <2>3 DEF Behind
  <2> QED
    BY <2>1, <2>3, <2>7, <2>8 DEF new
<1> QED
  BY <1>2, <1>3

\* A broadcaster that sleeps in a channel waits for the event it had to spare.
LEMMA WaitForDrainAwaited ==
    ASSUME NEW ch \in Channel, NEW a \in Actors, Covered(ch), Spare(ch)
    PROVE  LET new == WaitForDrain(ch, a)
           IN  /\ Covered(new) /\ new.phase = ch.phase
               /\ ch.phase = "open" /\ Behind(ch, 1) => Behind(new, 0)
<1> DEFINE drainers == Append(ch.drainers, a)
           new == [ch EXCEPT !.drainers = drainers]
<1>1. /\ ch.drainers \in Seq(Actors) /\ Len(ch.queue) \in Nat /\ Len(ch.drainers) \in Nat
      /\ ch.queue = <<>> <=> Len(ch.queue) = 0
  BY LengthsInChannel
<1>2. CASE ch.phase = "open" /\ ch.queue # <<>>
  <2>1. WaitForDrain(ch, a) = new
    BY <1>2 DEF WaitForDrain
  <2>2. Len(drainers) = Len(ch.drainers) + 1
    BY <1>1
  <2> HIDE DEF drainers
  <2>3. /\ new.queue = ch.queue /\ new.phase = ch.phase /\ new.stream = ch.stream
        /\ new.drainers = drainers
    BY DEF Channel
  <2> HIDE DEF new
  <2>4. UnreadOf(new) = UnreadOf(ch)
    BY <2>3 DEF UnreadOf
  <2>5. Covered(new)
    BY <1>2, <2>2, <2>3, <2>4 DEF Covered, Spare
  <2>6. Behind(ch, 1) => Behind(new, 0)
    BY <1>1, <2>2, <2>3 DEF Behind
  <2> QED
    BY <2>1, <2>3, <2>5, <2>6 DEF new
<1>3. CASE ~(ch.phase = "open" /\ ch.queue # <<>>)
  <2>1. WaitForDrain(ch, a) = ch
    BY <1>3 DEF WaitForDrain
  <2>2. ch.phase = "open" => Behind(ch, 0)
    BY <1>1, <1>3 DEF Behind
  <2> QED
    BY <2>1, <2>2
<1> QED
  BY <1>2, <1>3

\* A step that begins no settling and eases every channel.
LEMMA AwaitedKept ==
    ASSUME CoreInv, Awaited, subscribers' \subseteq subscribers, kernel'.policy = kernel.policy,
           Settling' = Settling \/ (Settling' = {} /\ ~Policy("blocking")),
           \A p \in Readers : Eases(chan[p], chan'[p]),
           \A p \in Sinks : pc'[p] \in Reading => pc[p] \in Reading
    PROVE  Awaited'
<1>1. \A p \in Readers : Covered(chan'[p])
  BY DEF Awaited, Eases
<1>2. ASSUME Settling' # {}, NEW p \in subscribers' PROVE Spare(chan'[p])
  <2>1. p \in Readers /\ p \in subscribers /\ Settling # {}
    BY <1>2 DEF CoreInv, TypeOK
  <2> QED
    BY <2>1 DEF Awaited, Eases
<1>3. ASSUME Policy("blocking")', NEW p \in Sinks, Exposed(p)' PROVE Behind(chan'[p], Pending')
  <2>1. p \in Readers /\ Policy("blocking") /\ Pending' = Pending /\ Pending \in Nat
    BY <1>3, SinksDoNotYield DEF Policy, Pending
  <2>2. Exposed(p) /\ chan'[p].phase = "open"
    BY <1>3, <2>1 DEF Exposed, Eases
  <2>3. Behind(chan[p], Pending)
    BY <2>1, <2>2 DEF Awaited
  <2> HIDE DEF Pending
  <2> QED
    BY <2>1, <2>2, <2>3 DEF Eases
<1> QED
  BY <1>1, <1>2, <1>3 DEF Awaited, Covered, Behind

\* Nothing is settled while a broadcast commits, which begins to settle.
LEMMA FanOutAwaited ==
    ASSUME CoreInv, Awaited, NEW a \in Actors, FanOut(a)
    PROVE  Awaited'
<1>1. /\ pc \in [Actors -> PCs] /\ pc[a] = "committing" /\ lastSeq' \in Nat
      /\ Consistent(mutex, Owners, Locking) /\ subscribers \subseteq Readers
      /\ UNCHANGED <<subscribers, kernel>>
  BY DEF CoreInv, TypeOK, PCs, FanOut
<1>2. /\ chan' = [p \in Readers |-> IF p \in subscribers THEN Enqueue(chan[p], lastSeq') ELSE chan[p]]
      /\ pc' = [b \in Actors |-> IF b = a THEN "settling"
                                 ELSE IF b \in subscribers /\ pc[b] = "asleep"
                                      THEN "ready" ELSE pc[b]]
  BY DEF FanOut, WokenByFanOut
<1>3. Settling = {} /\ a \in Settling'
  <2>1. a \in Owners /\ Settling \subseteq Owners
    BY <1>1 DEF Owners, Settling, Holding
  <2>2. Owners = {a}
    BY <1>1, <2>1 DEF Consistent
  <2> QED
    BY <1>1, <1>2, <2>1, <2>2 DEF Settling
<1>4. Pending = 0 /\ Pending' = 1
  BY <1>3 DEF Pending
<1>5. \A p \in Readers : chan[p] \in Channel /\ Covered(chan[p])
  BY DEF CoreInv, Sound, Awaited
<1>6. ASSUME NEW p \in subscribers
      PROVE  /\ Covered(chan'[p]) /\ Spare(chan'[p]) /\ chan'[p].phase = chan[p].phase
             /\ Behind(chan[p], 0) => Behind(chan'[p], 1)
  <2>1. p \in Readers /\ chan'[p] = Enqueue(chan[p], lastSeq')
    BY <1>1, <1>2
  <2> HIDE DEF CoreInv
  <2> QED
    BY <1>1, <1>5, <2>1, EnqueueAwaited
<1>7. \A p \in Readers : Covered(chan'[p])
  BY <1>2, <1>5, <1>6
<1>8. ASSUME Policy("blocking"), NEW p \in Sinks, Exposed(p)' PROVE Behind(chan'[p], 1)
  <2>1. p \in Actors /\ p \in subscribers /\ p # a
    <3>1. a \in Producers \cup Sources
      BY <1>1 DEF CoreInv, Places, InBroadcast
    <3> QED
      BY <1>1, <1>8, <3>1, SinksDoNotYield DEF Exposed
  <2>2. Exposed(p)
    BY <1>1, <1>2, <1>6, <1>8, <2>1 DEF Exposed, Reading
  <2> QED
    BY <1>4, <1>6, <1>8, <2>1, <2>2 DEF Awaited
<1>9. Policy("blocking")' <=> Policy("blocking")
  BY <1>1 DEF Policy
<1> HIDE DEF Pending
<1> QED
  BY <1>1, <1>4, <1>6, <1>7, <1>8, <1>9 DEF Awaited, Covered, Spare, Behind

\* The end of a critical section: nothing is settled any more.
LEMMA ReleasedSettles ==
    ASSUME CoreInv, NEW a \in Actors, NEW next \in {"failed", "idle", "looping", "waiting"},
           pc[a] \in Holding, Released(a, next)
    PROVE  /\ Settling' = {} /\ Settling \subseteq {a}
           /\ \A p \in Sinks : pc'[p] \in Reading => pc[p] \in Reading
<1>1. Settling \subseteq Owners /\ a \in Owners /\ Consistent(mutex, Owners, Locking)
  BY DEF CoreInv, Settling, Owners, Holding
<1>2. Settling \subseteq {a}
  BY <1>1 DEF Consistent
<1>3. \A b \in Actors : pc'[b] \in {"checking", "committing"} \/ (b = a /\ pc'[b] = next)
                        \/ (b # a /\ pc'[b] = pc[b])
  BY DEF Released, Entry
<1>4. Settling' = {}
  BY <1>2, <1>3 DEF Settling
<1>5. \A p \in Sinks : pc'[p] \in Reading => pc[p] \in Reading
  BY <1>3, SinksDoNotYield DEF Reading
<1> QED
  BY <1>2, <1>4, <1>5

\* The broadcast that is settled goes to sleep where events wait.
LEMMA WaitForConsumersAwaited ==
    ASSUME CoreInv, Awaited, NEW a \in Actors, WaitForConsumers(a)
    PROVE  Awaited'
<1>1. /\ pc[a] = "settling" /\ UNCHANGED <<subscribers, kernel>> /\ subscribers \subseteq Readers
      /\ chan' = [p \in Readers |-> IF p \in Targets THEN WaitForDrain(chan[p], a) ELSE chan[p]]
  BY DEF WaitForConsumers, CoreInv, TypeOK
<1>2. /\ Settling' = {} /\ Settling = {a}
      /\ \A p \in Sinks : pc'[p] \in Reading => pc[p] \in Reading
  <2>1. PICK next : /\ next \in {"failed", "idle", "looping", "waiting"} /\ Released(a, next)
                    /\ pc[a] \in Holding
    BY DEF WaitForConsumers, Returned, Holding
  <2>2. a \in Settling
    BY <1>1 DEF Settling
  <2> QED
    BY <2>1, <2>2, ReleasedSettles
<1>3. Pending = 1 /\ Pending' = 0
  BY <1>2 DEF Pending
<1>4. \A p \in Readers : chan[p] \in Channel /\ Covered(chan[p])
  BY DEF CoreInv, Sound, Awaited
<1>5. ASSUME NEW p \in Targets
      PROVE  /\ Covered(chan'[p]) /\ chan'[p].phase = chan[p].phase
             /\ chan[p].phase = "open" /\ Behind(chan[p], 1) => Behind(chan'[p], 0)
  <2>1. /\ p \in Readers /\ p \in subscribers /\ chan'[p] = WaitForDrain(chan[p], a)
    BY <1>1 DEF Targets
  <2>2. Spare(chan[p])
    BY <1>2, <2>1 DEF Awaited
  <2> HIDE DEF CoreInv
  <2> QED
    BY <1>4, <2>1, <2>2, WaitForDrainAwaited
<1>6. \A p \in Readers : Covered(chan'[p])
  BY <1>1, <1>4, <1>5
<1>7. ASSUME Policy("blocking"), NEW p \in Sinks, Exposed(p)' PROVE Behind(chan'[p], 0)
  <2>1. p \in subscribers /\ pc[p] \in Reading /\ p \in Readers /\ p \in Processors
    BY <1>1, <1>2, <1>7, SinksDoNotYield DEF Exposed, Sinks
  <2>2. p \in Targets
    BY <2>1 DEF Targets, Consuming, Reading
  <2>3. Exposed(p)
    BY <1>1, <1>5, <1>7, <2>1, <2>2 DEF Exposed
  <2> QED
    BY <1>3, <1>5, <1>7, <2>2, <2>3 DEF Awaited, Exposed
<1>8. Policy("blocking")' <=> Policy("blocking")
  BY <1>1 DEF Policy
<1> HIDE DEF Pending
<1> QED
  BY <1>2, <1>3, <1>6, <1>7, <1>8 DEF Awaited, Covered, Behind

\* One actor moves and settles nothing.
LEMMA MoveAwaited ==
    ASSUME CoreInv, Awaited, NEW a \in Actors, NEW place,
           pc' = [pc EXCEPT ![a] = place], pc[a] # "settling", place # "settling",
           place \in Reading => a \notin Sinks \/ pc[a] \in Reading,
           UNCHANGED subscribers, kernel'.policy = kernel.policy,
           \A p \in Readers : Eases(chan[p], chan'[p])
    PROVE  Awaited'
<1>1. pc \in [Actors -> PCs]
  BY DEF CoreInv, TypeOK, PCs
<1>2. Settling' = Settling
  BY <1>1 DEF Settling
<1>3. \A p \in Sinks : pc'[p] \in Reading => pc[p] \in Reading
  BY <1>1, SinksDoNotYield
<1> QED
  BY <1>2, <1>3, AwaitedKept

\* Channels are unsubscribed, and some actors leave their loops.
LEMMA UnsubscribeAwaited ==
    ASSUME CoreInv, Awaited, NEW S \in SUBSET Readers, NEW drain, NEW control,
           \A a \in Actors :
              control[a] = pc[a] \/ (control[a] = "done" /\ pc[a] \in {"running", "failed"}),
           UnsubscribeAll(S, drain, control), kernel'.policy = kernel.policy
    PROVE  Awaited'
<1>1. /\ chan' = [p \in Readers |-> IF p \in S THEN Unsubscribe(chan[p], drain) ELSE chan[p]]
      /\ subscribers' \subseteq subscribers
  BY SplicedSubset DEF UnsubscribeAll
<1>2. \A a \in Actors : \/ pc'[a] = pc[a]
                        \/ pc'[a] = "ready" /\ pc[a] = "asleep"
                        \/ pc'[a] = "done" /\ pc[a] \in {"running", "failed"}
  BY DEF UnsubscribeAll
<1>3. Settling' = Settling
  BY <1>2 DEF Settling
<1>4. \A p \in Sinks : pc'[p] \in Reading => pc[p] \in Reading
  BY <1>2, SinksDoNotYield DEF Reading
<1>5. ASSUME NEW p \in Readers PROVE Eases(chan[p], chan'[p])
  <2>1. chan[p] \in Channel /\ (chan[p].phase = "closed" => chan[p].queue = <<>>)
    BY DEF CoreInv, Sound
  <2>2. CASE p \in S
    BY <1>1, <2>1, <2>2, UnsubscribeEases
  <2>3. CASE p \notin S
    BY <1>1, <2>3, SameEases
  <2> QED
    BY <2>2, <2>3
<1> QED
  BY <1>1, <1>3, <1>4, <1>5, AwaitedKept

\* Every step keeps the invariant.
LEMMA AwaitedStep ==
    ASSUME CoreInv, Awaited, [Next]_vars
    PROVE  Awaited'
<1>1. /\ pc \in [Actors -> PCs] /\ chan \in [Readers -> Channel]
      /\ \A p \in Readers : chan[p] \in Channel
  BY DEF CoreInv, TypeOK, PCs, Channel
<1>2. UNCHANGED chan => \A p \in Readers : Eases(chan[p], chan'[p])
  BY SameEases
<1>3. CASE UNCHANGED vars
  <2>1. /\ Settling' = Settling /\ \A p \in Sinks : pc'[p] = pc[p]
        /\ subscribers' = subscribers /\ kernel' = kernel /\ chan' = chan
    BY <1>3 DEF vars, Settling
  <2> QED
    BY <1>2, <2>1, AwaitedKept
<1>4. ASSUME NEW a \in Actors, NEW place, pc' = [pc EXCEPT ![a] = place],
             pc[a] # "settling", place \notin Reading \cup {"settling"},
             UNCHANGED <<subscribers, chan, kernel>>
      PROVE  Awaited'
  BY <1>2, <1>4, MoveAwaited
<1>5. ASSUME NEW p \in Readers, Pull(p) \/ Wake(p) PROVE Awaited'
  <2>1. PICK ch : /\ ch = Pulled(chan[p], Low) \/ (ch = Advance(chan[p]) /\ chan[p].stream # "held")
                  /\ pc[p] \in {"running", "ready"} /\ Receive(p, ch)
                  /\ subscribers' \subseteq subscribers /\ UNCHANGED kernel
    <3>1. CASE Pull(p)
      BY <3>1, SplicedSubset DEF Pull
    <3>2. CASE Wake(p)
      BY <3>2 DEF Wake, CoreInv, Places
    <3> QED
      BY <1>5, <3>1, <3>2
  <2>2. Eases(chan[p], ch)
    BY <1>1, <2>1, LowType, PulledEases, AdvanceEases
  <2>3. \A q \in Readers : Eases(chan[q], chan'[q])
    BY <1>1, <2>1, <2>2, SameEases DEF Receive
  <2>4. /\ p \in Actors /\ pc'[p] \in {"asleep", "running"} /\ \A b \in Actors \ {p} : pc'[b] = pc[b]
    BY <1>1, <2>1, SinksDoNotYield DEF Receive
  <2>5. Settling' = Settling /\ \A q \in Sinks : pc'[q] \in Reading => pc[q] \in Reading
    BY <2>1, <2>4, SinksDoNotYield DEF Settling, Reading
  <2> QED
    BY <2>1, <2>3, <2>5, AwaitedKept
<1>6. ASSUME NEW p \in Readers, Return(p) PROVE Awaited'
  <2>1. /\ {p} \in SUBSET Readers /\ UNCHANGED kernel
        /\ UnsubscribeAll({p}, FALSE, [pc EXCEPT ![p] = "done"]) /\ pc[p] = "running"
    BY <1>6 DEF Return
  <2> QED
    BY <1>1, <2>1, UnsubscribeAwaited
<1>7. ASSUME NEW o \in Observers, NEW drain \in BOOLEAN, Leave(o, drain) PROVE Awaited'
  <2>1. {o} \in SUBSET Readers /\ UNCHANGED kernel /\ UnsubscribeAll({o}, drain, pc)
    BY <1>7 DEF Leave, Readers
  <2> QED
    BY <2>1, UnsubscribeAwaited
<1>8. ASSUME NEW force \in BOOLEAN, NEW quitters, \A a \in quitters : pc[a] \in {"running", "failed"},
             ShutDown(force, quitters)
      PROVE  Awaited'
  <2> DEFINE control == [a \in Actors |-> IF a \in quitters THEN "done" ELSE pc[a]]
  <2>1. /\ kernel'.policy = kernel.policy /\ kernel.processors \in SUBSET Readers
        /\ \/ pc' = control /\ UNCHANGED <<chan, subscribers>>
           \/ UnsubscribeAll(kernel.processors, ~force, control)
    BY <1>8 DEF ShutDown, CoreInv, TypeOK, Readers
  <2>2. \A a \in Actors :
           control[a] = pc[a] \/ (control[a] = "done" /\ pc[a] \in {"running", "failed"})
    BY <1>8
  <2> HIDE DEF control
  <2>3. CASE pc' = control /\ UNCHANGED <<chan, subscribers>>
    <3>1. Settling' = Settling
      BY <2>2, <2>3 DEF Settling
    <3>2. \A p \in Sinks : pc'[p] \in Reading => pc[p] \in Reading
      BY <2>2, <2>3, SinksDoNotYield DEF Reading
    <3> QED
      BY <1>2, <2>1, <2>3, <3>1, <3>2, AwaitedKept
  <2> QED
    BY <2>1, <2>2, <2>3, UnsubscribeAwaited
<1>9. CASE LoopStep
  <2>1. ASSUME NEW p \in Readers, YieldNothing(p) \/ Throw(p) \/ StopObserving(p) PROVE Awaited'
    BY <1>4, <2>1, SinksDoNotYield DEF YieldNothing, Throw, StopObserving, Reading
  <2>2. ASSUME NEW p \in Readers, Loop(p) PROVE Awaited'
    <3>1. p \notin Sinks /\ p \in Actors
      BY <2>2, SinksDoNotYield DEF Loop, CoreInv, Places, Reading
    <3> QED
      BY <1>2, <2>2, <3>1, MoveAwaited DEF Loop
  <2>3. ASSUME NEW s \in Sources, SourceExits(s) PROVE Awaited'
    BY <1>4, <2>3, SinksDoNotYield DEF SourceExits, Reading
  <2>4. ASSUME NEW a \in Actors, Abort(a) PROVE Awaited'
    BY <1>8, <2>4 DEF Abort
  <2>5. ASSUME NEW force \in BOOLEAN, Stop(force) PROVE Awaited'
    BY <1>8, <2>5 DEF Stop
  <2>6. CASE Cancel
    <3>1. Settling' = Settling /\ \A p \in Sinks : pc'[p] \in Reading => pc[p] \in Reading
      BY <2>6 DEF Cancel, Settling
    <3>2. UNCHANGED <<subscribers, chan>> /\ kernel'.policy = kernel.policy
      BY <2>6, CancelChanges DEF CoreInv
    <3> QED
      BY <1>2, <3>1, <3>2, AwaitedKept
  <2> QED
    BY <1>3, <1>5, <1>6, <1>7, <1>9, <2>1, <2>2, <2>3, <2>4, <2>5, <2>6 DEF LoopStep, Quiescent
<1>10. ASSUME NEW a \in Actors, Yields(a) PROVE pc[a] \in {"running", "idle"}
  BY <1>10 DEF Yields
<1>11. ASSUME NEW a \in Actors, pc[a] # "settling", Request(a) PROVE Awaited'
  <2>1. PICK place \in {"locking", "committing"} : pc' = [pc EXCEPT ![a] = place]
    BY <1>11 DEF Request
  <2>2. UNCHANGED <<subscribers, chan, kernel>>
    BY <1>11 DEF Request
  <2> QED
    BY <1>4, <1>11, <2>1, <2>2 DEF Reading
<1>12. ASSUME NEW a \in Actors, pc[a] # "settling", Throttle(a) \/ Stall(a) PROVE Awaited'
  <2>1. PICK place \in {"admitted", "throttled", "failed"} :
           pc' = [pc EXCEPT ![a] = place] /\ UNCHANGED <<subscribers, kernel>>
    BY <1>12 DEF Throttle, Stall
  <2>2. ASSUME NEW p \in Readers PROVE Eases(chan[p], chan'[p])
    <3>1. PICK L : chan'[p] = chan[p] \/ chan'[p] = [chan[p] EXCEPT !.listeners = L]
      BY <1>12 DEF Throttle, Stall
    <3>2. /\ chan'[p].queue = chan[p].queue /\ chan'[p].stream = chan[p].stream
          /\ chan'[p].phase = chan[p].phase /\ chan'[p].drainers = chan[p].drainers
      BY <1>1, <3>1 DEF Channel
    <3> QED
      BY <3>2, SameEases
  <2> QED
    BY ONLY CoreInv, Awaited, <1>12, <2>1, <2>2, MoveAwaited DEF Reading
<1>13. ASSUME NEW a \in Actors, NEW next \in {"failed", "idle", "looping"}, Released(a, next),
              pc[a] \in Holding, pc[a] = "settling" => ~Policy("blocking"),
              UNCHANGED <<subscribers, chan, kernel>>
       PROVE  Awaited'
  <2>1. /\ Settling' = {} /\ Settling \subseteq {a}
        /\ \A p \in Sinks : pc'[p] \in Reading => pc[p] \in Reading
    BY <1>13, ReleasedSettles
  <2>2. Settling' = Settling \/ (Settling' = {} /\ ~Policy("blocking"))
    BY <1>13, <2>1 DEF Settling
  <2> QED
    BY <1>2, <1>13, <2>1, <2>2, AwaitedKept
<1>14. ASSUME NEW a \in Actors, Call(a) PROVE Awaited'
  <2>1. pc[a] # "settling"
    BY <1>10, <1>14 DEF Call, CallBlocking, CallFailFirst, CallThrottle
  <2>2. \/ Request(a) \/ Throttle(a)
        \/ pc' = [pc EXCEPT ![a] = "failed"] /\ UNCHANGED <<subscribers, chan, kernel>>
    BY <1>14 DEF Call, CallBlocking, CallFailFirst, CallThrottle
  <2> QED
    BY <1>4, <1>11, <1>12, <2>1, <2>2 DEF Reading
<1>15. ASSUME NEW a \in Actors, Continue(a) PROVE Awaited'
  <2>1. CASE Check(a)
    <3>1. \/ Released(a, "failed")
          \/ pc' = [pc EXCEPT ![a] = "committing"]
      BY <2>1 DEF Check
    <3>2. pc[a] = "checking" /\ UNCHANGED <<subscribers, chan, kernel>>
      BY <2>1 DEF Check
    <3> QED
      BY <1>4, <1>13, <3>1, <3>2 DEF Holding, Reading
  <2>2. CASE Recovered(a)
    BY <1>12, <2>2 DEF Recovered
  <2>3. CASE Admit(a)
    BY <1>11, <2>3 DEF Admit
  <2>4. CASE CommitFails(a)
    BY <1>13, <2>4 DEF CommitFails, Holding
  <2>5. CASE Settle(a)
    BY <1>13, <2>5 DEF Settle, Holding, Returned
  <2>6. CASE Drained(a)
    BY <1>4, <2>6 DEF Drained, Returned, Reading
  <2> QED
    BY <1>15, <2>1, <2>2, <2>3, <2>4, <2>5, <2>6, FanOutAwaited, WaitForConsumersAwaited DEF Continue
<1>16. ASSUME NEW a \in Actors, Stall(a) PROVE Awaited'
  BY <1>12, <1>16 DEF Stall
<1> QED
  BY <1>3, <1>9, <1>14, <1>15, <1>16 DEF Next

\* Nobody sleeps and nothing is queued at the start.
LEMMA AwaitedInit == Init => Awaited
<1> SUFFICES ASSUME Init PROVE Awaited
  OBVIOUS
<1>1. \A p \in Readers : chan[p].queue = <<>> /\ chan[p].drainers = <<>> /\ chan[p].stream # "held"
  BY DEF Init, NewChannel, NoChannel
<1>2. \A a \in Actors : pc[a] # "settling"
  BY DEF Init
<1>3. Settling = {} /\ Pending = 0
  BY <1>2 DEF Settling, Pending
<1>4. Len(<<>>) = 0
  OBVIOUS
<1>5. ASSUME NEW p \in Readers PROVE Covered(chan[p]) /\ Behind(chan[p], 0)
  <2>1. Len(chan[p].queue) = 0 /\ Len(chan[p].drainers) = 0
    BY <1>1, <1>4
  <2>2. UnreadOf(chan[p]) = 0
    BY <1>1, <2>1 DEF UnreadOf
  <2> QED
    BY <2>1, <2>2 DEF Covered, Behind
<1> QED
  BY <1>3, <1>5, SinksDoNotYield DEF Awaited

\* Every sleeping broadcaster has an event of the channel's reader that will wake
\* it, and a blocking policy lets no reader fall behind unawaited, for any number
\* of broadcasters, readers and events.
THEOREM WaitersMatchBacklogHolds == Spec => []WaitersMatchBacklog
<1>1. Init => CoreInv /\ Awaited
  BY CoreInit, AwaitedInit
<1>2. CoreInv /\ Awaited /\ [Next]_vars => (CoreInv /\ Awaited)'
  BY CoreStep, AwaitedStep
<1>3. CoreInv /\ Awaited => WaitersMatchBacklog
  <2> SUFFICES ASSUME CoreInv, Awaited PROVE WaitersMatchBacklog
    OBVIOUS
  <2>1. ASSUME NEW p \in Readers, chan[p].phase # "closed"
        PROVE  Len(chan[p].drainers) <= Unread(p)
    BY <2>1 DEF Awaited, Covered, Unread, UnreadOf
  <2>2. Cardinality(Settling) \in Nat /\ Pending \in Nat /\ Pending <= Cardinality(Settling)
    <3>1. IsFiniteSet(Settling)
      BY ActorsAssumption, FS_Subset DEF Settling
    <3>2. Cardinality(Settling) \in Nat /\ (Cardinality(Settling) = 0 <=> Settling = {})
      BY <3>1, FS_CardinalityType, FS_EmptySet
    <3> QED
      BY <3>2 DEF Pending
  <2>3. ASSUME Policy("blocking"), NEW p \in (Sinks \cap Consuming) \cap subscribers,
               chan[p].phase = "open"
        PROVE  Len(chan[p].queue) <= Len(chan[p].drainers) + Cardinality(Settling)
    <3>1. Behind(chan[p], Pending)
      BY <2>3 DEF Awaited, Exposed, Consuming, Reading
    <3>2. Len(chan[p].queue) \in Nat /\ Len(chan[p].drainers) \in Nat
      BY <2>3, SinksDoNotYield, LengthsInChannel DEF CoreInv, Sound
    <3> HIDE DEF Pending, Settling
    <3> QED
      BY <2>2, <3>1, <3>2 DEF Behind
  <2> QED
    BY <2>1, <2>3 DEF WaitersMatchBacklog, Sinks, Settling
<1> QED
  BY <1>1, <1>2, <1>3, PTL DEF Spec
-----------------------------------------------------------------------------
\* What the reader of p has read and has still to read only grows.
KeepsReading(p) == IsPrefix(got[p] \o chan[p].queue, got'[p] \o chan'[p].queue)

\* Moving the head of a queue behind what was read changes nothing, and what is
\* appended to the queue comes behind both.
LEMMA ReadAndQueued ==
    ASSUME NEW s \in Seq(Nat), NEW t \in Seq(Nat)
    PROVE  /\ IsPrefix(s \o t, s \o t)
           /\ t # <<>> => IsPrefix(s \o t, Append(s, Head(t)) \o Tail(t))
           /\ \A x \in Nat : IsPrefix(s \o t, s \o Append(t, x))
<1> DEFINE n == Len(s \o t)
<1>1. s \o t \in Seq(Nat) /\ n \in Nat
  OBVIOUS
<1>2. IsPrefix(s \o t, s \o t)
  BY <1>1 DEF IsPrefix
<1>3. ASSUME t # <<>> PROVE Append(s, Head(t)) \o Tail(t) = s \o t
  BY <1>3
<1>4. ASSUME NEW x \in Nat PROVE IsPrefix(s \o t, s \o Append(t, x))
  <2> DEFINE u == s \o Append(t, x)
  <2>1. u \in Seq(Nat) /\ Len(u) = n + 1 /\ \A i \in 1..n : u[i] = (s \o t)[i]
    OBVIOUS
  <2> HIDE DEF u
  <2>2. SubSeq(u, 1, n) = SubSeq(s \o t, 1, n)
    BY <1>1, <2>1
  <2> QED
    BY <1>1, <2>1, <2>2 DEF IsPrefix, u
<1> QED
  BY <1>2, <1>3, <1>4

\* Only a channel that is unsubscribed loses events, and a processor's only when
\* the processor returns before the end of its stream or the kernel is cancelled.
LEMMA EventsLeaveStep ==
    ASSUME CoreInv, [Next]_vars, NEW p \in Processors
    PROVE  OwesNothing(p)' \/ KeepsReading(p)
<1>1. /\ p \in Readers /\ got \in [Readers -> Seq(Nat)] /\ chan \in [Readers -> Channel]
      /\ got[p] \in Seq(Nat) /\ chan[p].queue \in Seq(Nat) /\ lastSeq \in Nat
      /\ pc \in [Actors -> PCs] /\ Sound(chan[p], Low) /\ Low \in Nat
  BY LowType DEF CoreInv, TypeOK, Readers, Channel, PCs
<1>2. ASSUME got'[p] = got[p], chan'[p].queue = chan[p].queue PROVE KeepsReading(p)
  BY <1>1, <1>2, ReadAndQueued DEF KeepsReading
<1>3. ASSUME NEW q \in Readers, NEW ch \in Channel, Turns(q, ch) PROVE KeepsReading(p)
  <2>1. CASE p # q
    <3>1. got'[p] = got[p] /\ chan'[p] = chan[p]
      BY <1>1, <1>3, <2>1 DEF Turns, Receive
    <3> QED
      BY <1>2, <3>1
  <2>2. CASE p = q
    <3>1. chan'[p] = ch /\ Turned(chan[p], ch)
          /\ got'[p] = (IF ch.stream = "held" THEN Append(got[p], Head(chan[p].queue)) ELSE got[p])
      BY <1>1, <1>3, <2>2 DEF Turns, Receive
    <3>2. CASE ch.stream = "held"
      BY <1>1, <3>1, <3>2, ReadAndQueued DEF Turned, KeepsReading
    <3>3. CASE ch.stream # "held"
      BY <1>2, <3>1, <3>3 DEF Turned
    <3> QED
      BY <3>2, <3>3
  <2> QED
    BY <2>1, <2>2
<1>4. ASSUME NEW a \in Actors, FanOut(a) PROVE KeepsReading(p)
  <2>1. /\ got' = got /\ lastSeq' \in Nat
        /\ chan'[p] = IF p \in subscribers THEN Enqueue(chan[p], lastSeq') ELSE chan[p]
    BY <1>1, <1>4 DEF FanOut
  <2>2. chan'[p].queue = chan[p].queue \/ chan'[p].queue = Append(chan[p].queue, lastSeq')
    <3> DEFINE queue == Append(chan[p].queue, lastSeq')
               new == [chan[p] EXCEPT !.queue = queue]
    <3>1. chan[p] \in Channel
      BY <1>1
    <3>2. new.queue = queue
      BY <3>1 DEF Channel
    <3>3. chan'[p] = chan[p] \/ chan'[p] = new
      BY <2>1 DEF Enqueue
    <3> QED
      BY <3>2, <3>3
  <2> QED
    BY <1>1, <1>2, <2>1, <2>2, ReadAndQueued DEF KeepsReading
<1>5. CASE Undisturbed
  BY <1>1, <1>2, <1>5 DEF Undisturbed
<1>6. ASSUME NEW S \in SUBSET Readers, NEW drain, NEW control, UnsubscribeAll(S, drain, control),
             UNCHANGED got, p \in S => drain
      PROVE  KeepsReading(p)
  <2>1. CASE p \in S
    <3>1. chan'[p] = Unsubscribe(chan[p], drain)
      BY <1>1, <1>6, <2>1 DEF UnsubscribeAll
    <3>2. chan'[p].queue = IF ClosesAtOnce(chan[p], drain) THEN <<>> ELSE chan[p].queue
      BY <1>1, <3>1, UnsubscribeSound
    <3>3. chan'[p].queue = chan[p].queue
      BY <1>6, <2>1, <3>2 DEF ClosesAtOnce
    <3> QED
      BY <1>2, <1>6, <3>3
  <2>2. CASE p \notin S
    BY <1>1, <1>2, <1>6, <2>2 DEF UnsubscribeAll
  <2> QED
    BY <2>1, <2>2
<1>7. ASSUME NEW q \in Readers, Return(q) PROVE OwesNothing(p)' \/ KeepsReading(p)
  <2>1. /\ UnsubscribeAll({q}, FALSE, [pc EXCEPT ![q] = "done"]) /\ UNCHANGED got
        /\ chan' = [r \in Readers |-> IF r \in {q} THEN Unsubscribe(chan[r], FALSE) ELSE chan[r]]
    BY <1>7 DEF Return, UnsubscribeAll
  <2>2. CASE p # q
    BY <1>1, <1>2, <2>1, <2>2
  <2>3. CASE p = q
    <3>1. chan'[p] = Unsubscribe(chan[p], FALSE)
      BY <1>1, <2>1, <2>3
    <3>2. chan'[p].stream = chan[p].stream /\ chan'[p].queue = <<>>
      <4>1. ClosesAtOnce(chan[p], FALSE)
        BY DEF ClosesAtOnce
      <4> HIDE DEF CoreInv
      <4> QED
        BY ONLY <1>1, <3>1, <4>1, UnsubscribeSound
    <3>3. pc'[p] = "done"
      BY <1>1, <2>1, <2>3, SinksDoNotYield DEF UnsubscribeAll
    <3>4. CASE chan[p].stream = "ended"
      BY <1>1, <1>2, <2>1, <3>2, <3>4 DEF Sound
    <3>5. CASE chan[p].stream # "ended"
      BY <3>2, <3>3, <3>5 DEF OwesNothing
    <3> QED
      BY <3>4, <3>5
  <2> QED
    BY <2>2, <2>3
<1>8. ASSUME NEW o \in Observers, NEW drain \in BOOLEAN, Leave(o, drain) PROVE KeepsReading(p)
  <2>1. {o} \in SUBSET Readers /\ p \notin {o}
    BY ActorsAssumption DEF Readers
  <2> QED
    BY <1>6, <1>8, <2>1 DEF Leave
<1>9. ASSUME NEW force \in BOOLEAN, NEW quitters, ShutDown(force, quitters)
      PROVE  OwesNothing(p)' \/ KeepsReading(p)
  <2>1. CASE force
    BY <1>9, <2>1 DEF ShutDown, OwesNothing, CoreInv, TypeOK
  <2>2. CASE ~force
    <3>1. UNCHANGED got /\ kernel.processors \in SUBSET Readers
      BY <1>9 DEF ShutDown, CoreInv, TypeOK, Readers
    <3>2. UNCHANGED chan \/ \E control : UnsubscribeAll(kernel.processors, ~force, control)
      BY <1>9 DEF ShutDown
    <3> QED
      BY <1>2, <1>6, <2>2, <3>1, <3>2
  <2> QED
    BY <2>1, <2>2
<1> QED
  BY <1>3, <1>4, <1>5, <1>7, <1>8, <1>9, StepNames

\* The queue of a processor loses events to its reader only, until the kernel is
\* cancelled or the processor returns by itself, for any number of processors and
\* broadcasts and every shutdown.
THEOREM EventsLeaveForTheReaderHolds == Spec => EventsLeaveForTheReader
<1>1. CoreInv /\ [Next]_vars =>
        [\A p \in Processors :
            OwesNothing(p)' \/ IsPrefix(got[p] \o chan[p].queue, got'[p] \o chan'[p].queue)]_vars
  BY EventsLeaveStep DEF KeepsReading
<1> QED
  BY <1>1, InvariantsHold, PTL DEF Spec, EventsLeaveForTheReader
-----------------------------------------------------------------------------
\* The members of the abstract broadcast that still take events.
Present == {p \in Readers : chan[p].phase = "open" /\ (OnlyKernel \/ p \in subscribers)}

\* The abstract broadcast starts empty.
LEMMA BroadcastInit == Init => Broadcast!Init
<1> SUFFICES ASSUME Init PROVE Broadcast!Init
  OBVIOUS
<1>1. [p \in Readers |-> chan[p].queue] = [p \in Readers |-> <<>>]
  BY DEF Init, NewChannel, NoChannel
<1> QED
  BY <1>1 DEF Broadcast!Init, Init

\* Every step is one of the abstract broadcast, or a stutter.
LEMMA BroadcastStep ==
    ASSUME CoreInv, CoreInv', [Next]_vars
    PROVE  [Broadcast!Next]_(Broadcast!vars)
<1> DEFINE inbox == [p \in Readers |-> chan[p].queue]
<1>1. /\ Lists /\ chan \in [Readers -> Channel] /\ got \in [Readers -> Seq(Nat)]
      /\ kernel'.processors = kernel.processors => (OnlyKernel' <=> OnlyKernel)
  BY DEF CoreInv, TypeOK, Channel, OnlyKernel
<1>2. ASSUME NEW leaving \in SUBSET Readers, NEW dropping \in SUBSET Readers,
             Present' = Present \ leaving, dropping \cap Present' = {},
             inbox' = [m \in Readers |-> IF m \in dropping THEN <<>> ELSE inbox[m]],
             UNCHANGED <<lastSeq, got>>
      PROVE  Broadcast!Next
  <2>1. Broadcast!Leave(leaving, dropping)
    BY <1>2 DEF Broadcast!Leave, Present
  <2> QED
    BY <2>1 DEF Broadcast!Next
<1>3. ASSUME NEW p \in Readers, NEW ch \in Channel, Turns(p, ch) PROVE Broadcast!Next
  <2>1. /\ Turned(chan[p], ch) /\ chan' = [chan EXCEPT ![p] = ch]
        /\ got' = IF ch.stream = "held" THEN [got EXCEPT ![p] = Append(@, Head(chan[p].queue))] ELSE got
        /\ \/ subscribers' = subscribers
           \/ subscribers' \subseteq subscribers /\ ch.stream = "ended"
        /\ UNCHANGED <<lastSeq, kernel>>
    BY <1>3 DEF Turns, Receive
  <2>2. \A q \in Readers : /\ chan'[q] = IF q = p THEN ch ELSE chan[q]
                           /\ chan'[q].phase = "open" <=> chan[q].phase = "open"
    BY <1>1, <2>1 DEF Turned
  <2>3. CASE ch.stream = "held"
    <3>1. Present' = Present
      BY <1>1, <2>1, <2>2, <2>3 DEF Present
    <3>2. ch.queue = Tail(chan[p].queue) /\ chan[p].queue # <<>>
      BY <2>1, <2>3 DEF Turned
    <3>3. /\ inbox[p] # <<>> /\ inbox' = [inbox EXCEPT ![p] = Tail(@)]
          /\ got' = [got EXCEPT ![p] = Append(@, Head(inbox[p]))]
      <4>1. inbox[p] = chan[p].queue
        OBVIOUS
      <4>2. \A q \in Readers : inbox'[q] = IF q = p THEN Tail(inbox[p]) ELSE inbox[q]
        BY <2>2, <3>2
      <4>3. inbox' = [q \in Readers |-> inbox'[q]] /\ inbox = [q \in Readers |-> inbox[q]]
        OBVIOUS
      <4>4. got' = [got EXCEPT ![p] = Append(@, Head(inbox[p]))]
        BY <2>1, <2>3, <4>1
      <4> HIDE DEF inbox
      <4> QED
        BY <3>2, <4>1, <4>2, <4>3, <4>4
    <3>4. Broadcast!Deliver(p)
      BY <2>1, <3>1, <3>3 DEF Broadcast!Deliver, Present
    <3> QED
      BY <3>4 DEF Broadcast!Next
  <2>4. CASE ch.stream # "held"
    <3>1. inbox' = inbox /\ UNCHANGED <<lastSeq, got>>
      BY <2>1, <2>2, <2>4 DEF Turned
    <3>2. Present' \subseteq Present
      BY <1>1, <2>1, <2>2 DEF Present
    <3>3. /\ Present \ Present' \in SUBSET Readers /\ {} \in SUBSET Readers
          /\ Present' = Present \ (Present \ Present') /\ {} \cap Present' = {}
          /\ inbox' = [m \in Readers |-> IF m \in {} THEN <<>> ELSE inbox[m]]
      BY <3>1, <3>2 DEF Present
    <3> HIDE DEF inbox
    <3> QED
      BY <1>2, <3>1, <3>3
  <2> QED
    BY <2>3, <2>4
<1>4. ASSUME NEW S \in SUBSET Readers, NEW drain \in BOOLEAN, Unsubscribes(S, drain)
      PROVE  Broadcast!Next
  <2> DEFINE closing == {p \in S : ClosesAtOnce(chan[p], drain)}
  <2>1. \A p \in Readers :
           /\ chan'[p].queue = IF p \in closing THEN <<>> ELSE chan[p].queue
           /\ p \in closing => chan'[p].phase # "open"
           /\ chan'[p].phase = "open" => chan[p].phase = "open"
    <3> TAKE p \in Readers
    <3>1. Sound(chan[p], Low) /\ Low \in Nat
      BY LowType DEF CoreInv
    <3>2. CASE p \in S
      <4>1. chan'[p] = Unsubscribe(chan[p], drain)
        BY <1>4, <3>2 DEF Unsubscribes
      <4>2. /\ chan'[p].phase # "open"
            /\ chan'[p].queue = IF ClosesAtOnce(chan[p], drain) THEN <<>> ELSE chan[p].queue
        BY <3>1, <4>1, UnsubscribeSound
      <4> QED
        BY <3>2, <4>2
    <3>3. CASE p \notin S
      BY <1>4, <3>3 DEF Unsubscribes
    <3> QED
      BY <3>2, <3>3
  <2> HIDE DEF closing
  <2>2. Present' \subseteq Present
    BY <1>1, <1>4, <2>1 DEF Present, Unsubscribes
  <2>3. closing \in SUBSET Readers /\ closing \cap Present' = {}
    BY <2>1 DEF Present, closing
  <2>4. inbox' = [m \in Readers |-> IF m \in closing THEN <<>> ELSE inbox[m]]
    BY <2>1
  <2>5. Present \ Present' \in SUBSET Readers /\ Present' = Present \ (Present \ Present')
        /\ UNCHANGED <<lastSeq, got>>
    BY <1>4, <2>2 DEF Present, Unsubscribes
  <2> HIDE DEF inbox
  <2> QED
    BY <1>2, <2>3, <2>4, <2>5
<1>5. ASSUME NEW a \in Actors, FanOut(a) PROVE Broadcast!Next
  <2>1. /\ lastSeq' = lastSeq + 1 /\ UNCHANGED <<got, subscribers, kernel>>
        /\ chan' = [p \in Readers |-> IF p \in subscribers THEN Enqueue(chan[p], lastSeq') ELSE chan[p]]
    BY <1>5 DEF FanOut
  <2>2. \A p \in Readers :
           /\ chan'[p].phase = chan[p].phase
           /\ chan'[p].queue = IF p \in Present THEN Append(chan[p].queue, lastSeq') ELSE chan[p].queue
    <3> TAKE p \in Readers
    <3>1. chan[p] \in Channel
      BY <1>1
    <3>2. p \in Present <=> (p \in subscribers /\ chan[p].phase = "open")
      BY <1>1 DEF Present, Lists
    <3> QED
      BY <2>1, <3>1, <3>2 DEF Enqueue, Channel
  <2>3. Present' = Present
    BY <1>1, <2>1, <2>2 DEF Present
  <2>4. inbox' = [m \in Readers |-> IF m \in Present THEN Append(inbox[m], lastSeq') ELSE inbox[m]]
    BY <2>2
  <2>5. Broadcast!Publish
    BY <2>1, <2>3, <2>4 DEF Broadcast!Publish, Present
  <2> QED
    BY <2>5 DEF Broadcast!Next
<1>6. CASE Undisturbed
  <2>1. inbox' = inbox /\ UNCHANGED <<lastSeq, got>>
    BY <1>6 DEF Undisturbed
  <2>2. Present' = Present
    BY <1>1, <1>6 DEF Undisturbed, Present
  <2> QED
    BY <2>1, <2>2 DEF Broadcast!vars, Present
<1> QED
  BY <1>3, <1>4, <1>5, <1>6, StepKinds

\* Whatever the policy, the multiplexer is a totally ordered broadcast to the
\* channels that are still open, for any processors, observers, marks and limits.
THEOREM MultiplexersImplementOrderedBroadcast == Spec => ImplementsOrderedBroadcast
<1>1. Init => Broadcast!Init
  BY BroadcastInit
<1>2. CoreInv /\ CoreInv' /\ [Next]_vars => [Broadcast!Next]_(Broadcast!vars)
  BY BroadcastStep
<1> QED
  BY <1>1, <1>2, InvariantsHold, PTL DEF Spec, ImplementsOrderedBroadcast, Broadcast!Spec
=============================================================================
