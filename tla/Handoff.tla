------------------------------ MODULE Handoff ------------------------------
(***************************************************************************)
(* The events that a handoff shows to the agent that replaces another one  *)
(* (core/agent-handoff.ts), as sequences of sequence numbers.              *)
(***************************************************************************)
EXTENDS Naturals, Sequences

\* getFailedSequences(): the numbers of the turns that failed.
FailedSequences(records) ==
    UNION {records[i].start..records[i].end : i \in {j \in 1..Len(records) : records[j].failed}}

\* computeWindows(): the first `head' and the last `tail' events, or all of them
\* as head; after a failure also the failed events in between.
HeadEvents(events, head, tail) ==
    IF Len(events) <= head + tail THEN events ELSE SubSeq(events, 1, head)

TailEvents(events, head, tail, reason, failed) ==
    IF Len(events) <= head + tail THEN <<>>
    ELSE LET between == SubSeq(events, head + 1, Len(events) - tail)
             missed == IF reason = "failure" THEN SelectSeq(between, LAMBDA e : e \in failed)
                                             ELSE <<>>
         IN  missed \o SubSeq(events, Len(events) - tail + 1, Len(events))
=============================================================================
