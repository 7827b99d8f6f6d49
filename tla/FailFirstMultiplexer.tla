------------------------ MODULE FailFirstMultiplexer ------------------------
(***************************************************************************)
(* FailFirstMultiplexer.broadcast(): under the mutex, fail when a consumer *)
(* has maxQueueSize events queued, else commit and fan out.                *)
(***************************************************************************)
EXTENDS MultiplexerCore

CONSTANT MaxQueueSize

ASSUME MaxQueueSizeAssumption == MaxQueueSize \in Nat

\* checkThresholds() throws for the broadcast of a.  Only the channels of
\* consuming processors count, and a processor that broadcasts is not one.
AtLimit(a) ==
    \E p \in subscribers \cap (Consuming \ {a}) : Len(chan[p].queue) >= MaxQueueSize

\* broadcast() on a free mutex checks the thresholds at once and may leave the
\* mutex again; otherwise it queues for the mutex.
CallFailFirst(a) ==
    /\ Policy("fail-first")
    /\ Yields(a)
    /\ IF ~mutex.locked /\ AtLimit(a)
       THEN pc' = [pc EXCEPT ![a] = "failed"]
            /\ UNCHANGED <<mutex, lastSeq, subscribers, chan, got, kernel>>
       ELSE Request(a)

\* The check after a hand-over as it would be if it were made before queueing.
CheckedBeforeQueueing(a) ==
    /\ pc[a] = "checking"
    /\ pc' = [pc EXCEPT ![a] = "committing"]
    /\ UNCHANGED <<mutex, lastSeq, subscribers, chan, got, kernel>>

\* A broadcast that was handed the mutex checks the thresholds.
Check(a) ==
    /\ pc[a] = "checking"
    /\ IF AtLimit(a)
       THEN Released(a, "failed")
       ELSE pc' = [pc EXCEPT ![a] = "committing"] /\ UNCHANGED mutex
    /\ UNCHANGED <<lastSeq, subscribers, chan, got, kernel>>
=============================================================================
