---------------------------- MODULE Multiplexers ----------------------------
(***************************************************************************)
(* A kernel with the multiplexer of any of the three policies.             *)
(***************************************************************************)
EXTENDS BlockingMultiplexer, FailFirstMultiplexer, ThrottleMultiplexer

Call(a) == CallBlocking(a) \/ CallFailFirst(a) \/ CallThrottle(a)

\* The rest of a broadcast, as far as the code takes it by itself.
Continue(a) ==
    \/ Check(a) \/ Recovered(a) \/ Admit(a) \/ FanOut(a) \/ CommitFails(a)
    \/ Settle(a) \/ WaitForConsumers(a) \/ Drained(a)

Next == LoopStep \/ \E a \in Actors : Call(a) \/ Continue(a) \/ Stall(a)

\* Whatever a does next once its promise is resolved.
Proceed(a) ==
    \/ a \in Readers /\ (Wake(a) \/ Loop(a))
    \/ a \in Sources /\ kernel.stopping /\ SourceExits(a)
    \/ Abort(a) \/ Continue(a)

Fairness ==
    /\ \A a \in Actors : WF_vars(Proceed(a))
    /\ \A p \in Processors : SF_vars(Reads(p))

Spec == Init /\ [][Next]_vars /\ Fairness
-----------------------------------------------------------------------------
\* Every broadcaster asleep in a drain deferrer is matched by an event that
\* the channel's reader has still to finish, each of which wakes one: nobody
\* is left behind when the queue is empty, although waitForDrain() has no loop.
\* The other way round, whatever a blocking policy lets a reader fall behind
\* is awaited, as long as the next event reaches it: one event by each
\* broadcaster that sleeps or is being settled.  (On its way out a channel is
\* not awaited: waitForDrain() returns once the termination is requested.)
WaitersMatchBacklog ==
    /\ \A p \in Readers : chan[p].phase # "closed" => Len(chan[p].drainers) <= Unread(p)
    /\ Policy("blocking") =>
          \A p \in ((Processors \ Producers) \cap Consuming) \cap subscribers :
              chan[p].phase = "open" =>
                  Len(chan[p].queue) <= Len(chan[p].drainers)
                                        + Cardinality({a \in Actors : pc[a] = "settling"})

\* The queue of a processor that never yields keeps to its limit, although an
\* asynchronous commit separates the check from the fan-out: exactly where the
\* check is made under the mutex, and overshot by one event for each concurrent
\* broadcaster where it is made before.
QueuesKeepToLimit ==
    \A p \in Processors \ Producers :
        /\ Policy("fail-first") => Len(chan[p].queue) <= MaxQueueSize
        /\ Policy("throttle") =>
              Len(chan[p].queue) <= HighWaterMark - 1 + Cardinality(Producers \cup Sources)

\* A broadcaster that waits for a channel waits for one that is still too full
\* and still has a reader's acknowledgement to come: the drain listener that
\* frees it has not fired and will.
NoRecoveryIsLost ==
    \A p \in Readers : chan[p].listeners # {} =>
        chan[p].phase # "closed" /\ Unread(p) > LowWaterMark
=============================================================================
