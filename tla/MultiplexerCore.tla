-------------------------- MODULE MultiplexerCore --------------------------
(***************************************************************************)
(* What the three multiplexers have in common, with the loops that use     *)
(* them: the processors of the kernel, each of which reads its channel and *)
(* broadcasts what it yields (IntentProcessor.process), the cascading loop *)
(* (a source: it only broadcasts) and DuctusKernel.shutdown().             *)
(*                                                                         *)
(* An action is the code one actor runs between two awaits.  `ready' is an *)
(* actor whose promise is resolved and whose continuation has not run yet. *)
(***************************************************************************)
EXTENDS EventChannel, Mutex, FiniteSets, SequencesExt

CONSTANTS
    Processors,  \* event processors of the kernel, one channel each
    Observers,   \* readers that subscribed by themselves, one channel each
    Producers,   \* the processors that yield; the others only read
    Sources,     \* loops that broadcast and read nothing
    Setups,      \* the casts, sets of readers that take part, each with the policy
                 \* of the multiplexer that the kernel is given
    LowWaterMark, \* option of the throttle policy, for its drain listeners
    Rank,        \* the order in which the readers subscribed
    MaxEvents,   \* bound on the number of broadcasts
    MayFail,     \* failures that may occur: "commit", "throw"
    Stops        \* the ways in which the kernel is stopped: by shutdown(),
                 \* "graceful" or "forced", and by a token, "cancel"

Readers == Processors \cup Observers
Actors == Readers \cup Sources
Casts == {setup.cast : setup \in Setups}
Policies == {setup.policy : setup \in Setups}

ASSUME ActorsAssumption ==
    /\ Producers \subseteq Processors
    /\ Processors \cap Observers = {} /\ Readers \cap Sources = {}
    /\ IsFiniteSet(Actors) /\ Casts \subseteq SUBSET Readers
ASSUME RankAssumption ==
    /\ Rank \in [Readers -> Nat]
    /\ \A p, q \in Readers : Rank[p] = Rank[q] => p = q
ASSUME PoliciesAssumption == Policies \subseteq {"blocking", "fail-first", "throttle"}
ASSUME MaxEventsAssumption == MaxEvents \in Nat

VARIABLES
    mutex,        \* lockMutex of the multiplexer
    lastSeq,      \* number of committed events; event n is the number n
    subscribers,  \* the multiplexer's list of channels, ordered by Rank
    chan,         \* the channels
    got,          \* the events each processor has received
    pc,           \* where each actor is
    kernel        \* its policy and processors, isShutDownStarted, the canceller's flag

vars == <<mutex, lastSeq, subscribers, chan, got, pc, kernel>>

\* The generator of a processor runs or waits for its stream: isConsuming().
Consuming == {p \in Processors : pc[p] \in {"running", "asleep", "ready"}}

\* Actors in a call of broadcast().
Broadcasting == {a \in Actors : pc[a] \in {"throttled", "admitted", "locking",
                                          "checking", "committing", "settling", "waiting"}}

Init ==
    /\ \E setup \in Setups :
          /\ subscribers = setup.cast
          /\ kernel = [policy |-> setup.policy, processors |-> subscribers \cap Processors,
                       stopping |-> FALSE, cancelled |-> FALSE]
    /\ mutex = FreeMutex
    /\ lastSeq = 0
    /\ chan = [p \in Readers |-> IF p \in subscribers THEN NewChannel ELSE NoChannel]
    /\ got = [p \in Readers |-> <<>>]
    /\ pc = [a \in Actors |-> IF a \in subscribers THEN "running"
                              ELSE IF a \in Sources THEN "idle" ELSE "done"]

Policy(name) == kernel.policy = name

\* The mark at which the drain listeners of a channel fire; only throttle()
\* registers any.
Low == IF Policy("throttle") THEN LowWaterMark ELSE 0

\* Where a broadcast goes on that is handed the mutex.
Entry == IF Policy("fail-first") THEN "checking" ELSE "committing"

\* The list after the channels in C closed: each removes the element at its
\* indexOf, and the last one when it is no longer in the list (index -1).
Spliced(list, C) ==
    LET rest == list \ C
        lost == Cardinality(C \ list)
    IN  {p \in rest : Cardinality({q \in rest : Rank[q] > Rank[p]}) >= lost}
-----------------------------------------------------------------------------
\* What the reader of channel p does once the channel has become ch: it sleeps,
\* or goes on with an event or the end of the stream.
Receive(p, ch) ==
    /\ chan' = [chan EXCEPT ![p] = ch]
    /\ pc' = [pc EXCEPT ![p] = IF ch.stream = "idle" THEN "asleep" ELSE "running"]
    /\ got' = IF ch.stream = "held" THEN [got EXCEPT ![p] = Append(@, Head(chan[p].queue))]
                                    ELSE got

\* The generator of p asks for its next event.
Pull(p) ==
    /\ pc[p] = "running" /\ chan[p].stream # "ended"
    /\ Receive(p, Pulled(chan[p], Low))
    /\ subscribers' = IF ClosesOnPull(chan[p]) THEN Spliced(subscribers, {p}) ELSE subscribers
    /\ UNCHANGED <<mutex, lastSeq, kernel>>

\* A reader that an event or the end of its channel woke.
Wake(p) ==
    /\ pc[p] = "ready"
    /\ Receive(p, Advance(chan[p]))
    /\ UNCHANGED <<mutex, lastSeq, subscribers, kernel>>

\* The generator of p yields undefined.
YieldNothing(p) ==
    /\ p \in Producers
    /\ pc[p] = "running"
    /\ pc' = [pc EXCEPT ![p] = "looping"]
    /\ UNCHANGED <<mutex, lastSeq, subscribers, chan, got, kernel>>

\* The head of the loops: stop when cancelled, else run the generator again.
Loop(p) ==
    /\ p \in Processors /\ pc[p] = "looping"
    /\ pc' = [pc EXCEPT ![p] = IF kernel.cancelled THEN "done" ELSE "running"]
    /\ UNCHANGED <<mutex, lastSeq, subscribers, chan, got, kernel>>

\* The cascading loop exits when cancelled, or in a shutdown when it is empty;
\* asleep, it is woken for it by shutdown() only.
SourceExits(s) ==
    /\ pc[s] = "idle"
    /\ kernel.stopping \/ kernel.cancelled
    /\ pc' = [pc EXCEPT ![s] = "done"]
    /\ UNCHANGED <<mutex, lastSeq, subscribers, chan, got, kernel>>

\* unsubscribe({ drain }) on several channels as it would be if it did not wake sleeping readers.
UnsubscribeAllSilently(S, drain, control) ==
    /\ chan' = [p \in Readers |-> IF p \in S THEN Unsubscribe(chan[p], drain) ELSE chan[p]]
    /\ subscribers' = Spliced(subscribers, {p \in S : ClosesAtOnce(chan[p], drain)})
    /\ pc' = control

\* unsubscribe({ drain }) on every channel of S, seen by the channels, by the
\* multiplexer's list and by the readers.
UnsubscribeAll(S, drain, control) ==
    LET closing == {p \in S : ClosesAtOnce(chan[p], drain)}
    IN  /\ chan' = [p \in Readers |-> IF p \in S THEN Unsubscribe(chan[p], drain)
                                                    ELSE chan[p]]
        /\ subscribers' = Spliced(subscribers, closing)
        /\ pc' = [a \in Actors |-> IF a \in closing /\ control[a] = "asleep"
                                   THEN "ready" ELSE control[a]]

\* The generator of p returns: its channel is closed.
Return(p) ==
    /\ p \in Processors
    /\ pc[p] = "running"
    /\ UnsubscribeAll({p}, FALSE, [pc EXCEPT ![p] = "done"])
    /\ UNCHANGED <<mutex, lastSeq, got, kernel>>

\* The loop of an observer over its stream ends with the stream.
StopObserving(o) ==
    /\ o \in Observers
    /\ pc[o] = "running" /\ chan[o].stream = "ended"
    /\ pc' = [pc EXCEPT ![o] = "done"]
    /\ UNCHANGED <<mutex, lastSeq, subscribers, chan, got, kernel>>

\* An observer's channel is unsubscribed by its owner.
Leave(o, drain) ==
    /\ chan[o].phase = "open"
    /\ UnsubscribeAll({o}, drain, pc)
    /\ UNCHANGED <<mutex, lastSeq, got, kernel>>

\* The generator of p throws.
Throw(p) ==
    /\ "throw" \in MayFail
    /\ p \in Processors
    /\ pc[p] = "running"
    /\ pc' = [pc EXCEPT ![p] = "failed"]
    /\ UNCHANGED <<mutex, lastSeq, subscribers, chan, got, kernel>>

\* shutdown({ force }): the first call unsubscribes every processor, a later
\* one can only cancel.  The actors in `quitters' leave their loops.
ShutDown(force, quitters) ==
    LET control == [a \in Actors |-> IF a \in quitters THEN "done" ELSE pc[a]]
    IN  /\ kernel' = [kernel EXCEPT !.stopping = TRUE, !.cancelled = @ \/ force]
        /\ IF kernel.stopping
           THEN pc' = control /\ UNCHANGED <<chan, subscribers>>
           ELSE UnsubscribeAll(kernel.processors, ~force, control)
        /\ UNCHANGED <<mutex, lastSeq, got>>

\* An error in the loop of a, of its generator or of its broadcast, makes the
\* kernel shut down.
Abort(a) ==
    /\ pc[a] = "failed"
    /\ ShutDown(TRUE, {a})

\* shutdown() called from outside.
Stop(force) ==
    /\ (IF force THEN "forced" ELSE "graceful") \in Stops
    /\ kernel.stopping => force /\ ~kernel.cancelled
    /\ ShutDown(force, {})

\* The application cancels the token that the kernel was given, or the causation
\* check the kernel's own; no channel is unsubscribed.
Cancel ==
    /\ "cancel" \in Stops /\ ~kernel.cancelled
    /\ kernel' = [kernel EXCEPT !.cancelled = TRUE]
    /\ UNCHANGED <<mutex, lastSeq, subscribers, chan, got, pc>>
-----------------------------------------------------------------------------
\* The generator of a processor yields an event, or the cascading loop takes
\* one; its loop then calls broadcast().
Yields(a) ==
    /\ \/ a \in Producers /\ pc[a] = "running"
       \/ a \in Sources /\ pc[a] = "idle" /\ ~kernel.cancelled
    /\ lastSeq + Cardinality(Broadcasting) < MaxEvents

\* The loops and the error handlers are a few continuations long, a commit
\* many: one that completes meanwhile may as well complete before, since the
\* channels of actors in transit take events either way.
NobodyInTransit == \A a \in Actors : pc[a] \notin {"looping", "failed"}

\* Where a goes when its broadcast returns.
Returned(a) == IF a \in Sources THEN "idle" ELSE "looping"

\* lockMutex.lock() by a broadcast that may commit at once if the mutex is free.
Request(a) ==
    /\ mutex' = Lock(mutex, a)
    /\ pc' = [pc EXCEPT ![a] = IF mutex.locked THEN "locking" ELSE "committing"]
    /\ UNCHANGED <<lastSeq, subscribers, chan, got, kernel>>

\* The end of the critical section of a, which goes on at `next'.
Released(a, next) ==
    /\ mutex' = Unlock(mutex)
    /\ pc' = [b \in Actors |-> IF b \in WokenByUnlock(mutex) THEN Entry
                               ELSE IF b = a THEN next ELSE pc[b]]

\* sequencer.commit() rejects.
CommitFails(a) ==
    /\ "commit" \in MayFail
    /\ pc[a] = "committing"
    /\ Released(a, "failed")
    /\ UNCHANGED <<lastSeq, subscribers, chan, got, kernel>>

\* The readers that a fan-out wakes, if enqueue() forgot to.
WakesNobody(p) == FALSE

\* enqueue() wakes a reader that sleeps in the stream of its channel.
WokenByFanOut(p) == p \in subscribers /\ pc[p] = "asleep"

\* sequencer.commit() numbers the event and every channel of the list gets it.
FanOut(a) ==
    /\ pc[a] = "committing" /\ NobodyInTransit
    /\ lastSeq' = lastSeq + 1
    /\ chan' = [p \in Readers |-> IF p \in subscribers
                                     THEN Enqueue(chan[p], lastSeq') ELSE chan[p]]
    /\ pc' = [b \in Actors |-> IF b = a THEN "settling"
                               ELSE IF WokenByFanOut(b) THEN "ready" ELSE pc[b]]
    /\ UNCHANGED <<mutex, subscribers, got, kernel>>

\* The readers that the fan-out woke run before the mutex is released: their
\* continuations were queued first.
ReadersResumed == \A p \in Readers : pc[p] # "ready"

\* The end of a broadcast that waits for nobody.
Settle(a) ==
    /\ ~Policy("blocking")
    /\ pc[a] = "settling"
    /\ ReadersResumed
    /\ Released(a, Returned(a))
    /\ UNCHANGED <<lastSeq, subscribers, chan, got, kernel>>

\* a waits for a channel that nobody reads any more: the kernel was cancelled
\* before the channel was closed, and its reader, being outside its generator,
\* leaves at the head of its loop.
Abandoned(a) ==
    /\ kernel.cancelled
    /\ \E p \in Processors \ Consuming :
          /\ chan[p].phase # "closed"
          /\ a \in ToSet(chan[p].drainers) \cup chan[p].listeners

\* Everybody sleeps for good, or until an event that nobody is going to send.
Quiescent ==
    /\ \A p \in Readers : pc[p] \in {"asleep", "done"} \/ Abandoned(p)
    /\ \A s \in Sources : pc[s] \in {"idle", "done"} \/ Abandoned(s)
    /\ UNCHANGED vars

\* The steps of the loops that no multiplexer changes.
LoopStep ==
    \/ \E p \in Readers :
          \/ Pull(p) \/ Wake(p) \/ YieldNothing(p) \/ Loop(p)
          \/ Return(p) \/ Throw(p) \/ StopObserving(p)
    \/ \E o \in Observers, drain \in BOOLEAN : Leave(o, drain)
    \/ \E a \in Actors : Abort(a)
    \/ \E s \in Sources : SourceExits(s)
    \/ \E force \in BOOLEAN : Stop(force)
    \/ Cancel
    \/ Quiescent

\* A processor that keeps running keeps reading, and returns at the end of its
\* stream: the assumption on the user's code.
Reads(p) == Pull(p) \/ (chan[p].stream = "ended" /\ Return(p))

-----------------------------------------------------------------------------
\* The types of the variables.
TypeOK ==
    /\ mutex \in [locked : BOOLEAN, waiters : Seq(Actors)]
    /\ lastSeq \in Nat
    /\ subscribers \subseteq Readers
    /\ chan \in [Readers ->
                    [queue : Seq(Nat), stream : {"idle", "held", "ended"},
                     phase : {"open", "draining", "closed"},
                     drainers : Seq(Actors), listeners : SUBSET Actors]]
    /\ got \in [Readers -> Seq(Nat)]
    /\ pc \in [Actors -> {"running", "asleep", "ready", "looping", "idle", "throttled", "admitted",
                          "locking", "checking", "committing", "settling", "waiting",
                          "failed", "done"}]
    /\ kernel \in [policy : Policies, processors : SUBSET Processors, stopping : BOOLEAN, cancelled : BOOLEAN]

\* The events of a channel that its reader has not finished.
Unread(p) == Len(chan[p].queue) + (IF chan[p].stream = "held" THEN 1 ELSE 0)

\* Nobody but the kernel subscribed.  Otherwise a channel may be taken off the
\* list by another one that closes twice (NothingMissed).
OnlyKernel ==
    \A cast \in Casts : cast \cap Processors = kernel.processors => cast \subseteq Processors

\* Every event is committed once and reaches every channel that is still
\* open, and a channel's reader sees them in commit order from the first on,
\* whatever other channels leave, fail or fall behind.
Broadcast == INSTANCE OrderedBroadcast
    WITH Members <- Readers,
         log <- lastSeq,
         inbox <- [p \in Readers |-> chan[p].queue],
         delivered <- got,
         present <- {p \in Readers : chan[p].phase = "open" /\ (OnlyKernel \/ p \in subscribers)}
ImplementsOrderedBroadcast == Broadcast!Spec

\* "Fans out committed events to all subscriber EventChannels": a channel that
\* nobody unsubscribed misses no event.
NothingMissed ==
    \A p \in Readers :
        chan[p].phase = "open" => Len(got[p]) + Len(chan[p].queue) = lastSeq

\* A broadcast returns or fails in the end, however its caller, its readers
\* and the shutdown interleave, with one exception: the reader it waits for left
\* its loop because the kernel was cancelled, and its channel was never closed.
EveryBroadcastReturns ==
    \A a \in Producers \cup Sources :
        a \in Broadcasting ~> (a \notin Broadcasting \/ Abandoned(a))

\* Once shutdown() is called every processor loop and the cascading loop exits,
\* also when a later call, the timer or a failing loop cancels the kernel while
\* its channels drain, except for a loop whose broadcast is abandoned.
EveryLoopExits ==
    kernel.stopping ~> \A a \in Processors \cup Sources : pc[a] = "done" \/ Abandoned(a)

\* "Force kill the loops on timeout": when shutdown() was called and the kernel is
\* cancelled, by its timer as by a forced call, every loop exits.
ForcedLoopsExit ==
    kernel.stopping /\ kernel.cancelled ~> \A a \in Processors \cup Sources : pc[a] = "done"

\* The channel of p owes its reader nothing: the kernel was cancelled, or the
\* reader returned by itself before the end of its stream.
OwesNothing(p) == kernel.cancelled \/ (pc[p] = "done" /\ chan[p].stream # "ended")

\* Events leave the queue of a channel for its reader only, in order, also in a
\* graceful shutdown and whatever the others do.
EventsLeaveForTheReader ==
    [][\A p \in Processors :
          OwesNothing(p)' \/ IsPrefix(got[p] \o chan[p].queue, got'[p] \o chan'[p].queue)]_vars

\* No event is dropped, and what is in a channel's queue is read in the end, also
\* in a graceful shutdown.
EveryEventIsRead ==
    /\ EventsLeaveForTheReader
    /\ \A p \in Processors : chan[p].queue # <<>> ~> (chan[p].queue = <<>> \/ OwesNothing(p))
=============================================================================
