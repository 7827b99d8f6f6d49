------------------------- MODULE ThrottleMultiplexer -------------------------
(***************************************************************************)
(* ThrottleMultiplexer.broadcast(): wait until no consumer is overloaded,  *)
(* then take the mutex, commit and fan out.                                *)
(***************************************************************************)
EXTENDS MultiplexerCore

CONSTANTS
    HighWaterMark,
    MayStall        \* the stall timer is set and may fire

ASSUME WaterMarksAssumption ==
    /\ HighWaterMark \in Nat /\ LowWaterMark \in Nat /\ LowWaterMark < HighWaterMark
    /\ MayStall \in BOOLEAN

\* The consumers of the list that throttle(), called by a, finds too far
\* behind; a processor that broadcasts is no consumer.
Overloaded(a) ==
    {p \in subscribers \cap (Consuming \ {a}) : Len(chan[p].queue) >= HighWaterMark}

\* One turn of the loop of throttle(): a waits for the recovery of the first
\* overloaded consumer, or goes on to the mutex.
Throttle(a) ==
    /\ chan' = [p \in Readers |->
                  IF p \in Overloaded(a) /\ \A q \in Overloaded(a) : Rank[p] <= Rank[q]
                  THEN [chan[p] EXCEPT !.listeners = @ \cup {a}] ELSE chan[p]]
    /\ pc' = [pc EXCEPT ![a] = IF Overloaded(a) = {} THEN "admitted" ELSE "throttled"]
    /\ UNCHANGED <<mutex, lastSeq, subscribers, got, kernel>>

\* broadcast() starts with throttle().
CallThrottle(a) == Policy("throttle") /\ Yields(a) /\ Throttle(a)

\* a has its callback on a drain listener, and its stall timer runs.
Listening(a) == \E p \in Readers : a \in chan[p].listeners

\* The channel recovered or closed: throttle() looks again.
Recovered(a) ==
    /\ pc[a] = "throttled" /\ ~Listening(a)
    /\ Throttle(a)

\* The stall timer fires first: the broadcast fails.
Stall(a) ==
    /\ MayStall
    /\ pc[a] = "throttled" /\ Listening(a)
    /\ chan' = [p \in Readers |-> [chan[p] EXCEPT !.listeners = @ \ {a}]]
    /\ pc' = [pc EXCEPT ![a] = "failed"]
    /\ UNCHANGED <<mutex, lastSeq, subscribers, got, kernel>>

\* A broadcast that throttle() let through asks for the mutex; nothing is
\* checked again.
Admit(a) ==
    /\ pc[a] = "admitted"
    /\ Request(a)
=============================================================================
