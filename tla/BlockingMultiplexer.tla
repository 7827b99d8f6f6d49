------------------------- MODULE BlockingMultiplexer -------------------------
(***************************************************************************)
(* BlockingMultiplexer.broadcast(): commit and fan out under the mutex,    *)
(* then wait for the consumers that still have events queued.              *)
(***************************************************************************)
EXTENDS MultiplexerCore

\* broadcast() asks for the mutex.
CallBlocking(a) == Policy("blocking") /\ Yields(a) /\ Request(a)

\* waitForConsumers(): the channels of the list whose processors are consuming.
Targets == subscribers \cap Consuming

\* The end of the critical section, and waitForConsumers(): a goes to sleep in
\* the drain deferrer of every target that has events queued.
WaitForConsumers(a) ==
    /\ Policy("blocking")
    /\ pc[a] = "settling"
    /\ ReadersResumed
    /\ chan' = [p \in Readers |-> IF p \in Targets THEN WaitForDrain(chan[p], a)
                                                      ELSE chan[p]]
    /\ Released(a, IF chan' = chan THEN Returned(a) ELSE "waiting")
    /\ UNCHANGED <<lastSeq, subscribers, got, kernel>>

\* Promise.all resolves: every target has woken a.
Drained(a) ==
    /\ pc[a] = "waiting"
    /\ \A p \in Readers : \A i \in 1..Len(chan[p].drainers) : chan[p].drainers[i] # a
    /\ pc' = [pc EXCEPT ![a] = Returned(a)]
    /\ UNCHANGED <<mutex, lastSeq, subscribers, chan, got, kernel>>
=============================================================================
