---------------------------- MODULE EventChannel ----------------------------
(***************************************************************************)
(* The channel of one subscriber (core/event-channel.ts) as operators on a *)
(* record                                                                  *)
(*     queue      the events that wait,                                    *)
(*     stream     where streamEvents() stands: "idle" before an event,     *)
(*                "held" while its reader processes one, "ended",          *)
(*     phase      "open", "draining" once its termination is requested and *)
(*                "closed" once it is terminated,                          *)
(*     drainers   broadcasters asleep in waitForDrain(), in wake-up order, *)
(*     listeners  broadcasters with a callback on its drain listener.      *)
(***************************************************************************)
EXTENDS Naturals, Sequences

NewChannel == [queue |-> <<>>, stream |-> "idle", phase |-> "open",
               drainers |-> <<>>, listeners |-> {}]

\* The channel of a reader that does not take part.
NoChannel == [NewChannel EXCEPT !.phase = "closed", !.stream = "ended"]

\* enqueue() as it would be on a stack.
EnqueueFirst(ch, event) ==
    IF ch.phase # "open" THEN ch ELSE [ch EXCEPT !.queue = <<event>> \o @]

\* enqueue(event); a channel on its way out takes no more events.
Enqueue(ch, event) ==
    IF ch.phase # "open" THEN ch ELSE [ch EXCEPT !.queue = Append(@, event)]

\* waitForDrain(), called by a broadcaster.
WaitForDrain(ch, caller) ==
    IF ch.phase = "open" /\ ch.queue # <<>>
    THEN [ch EXCEPT !.drainers = Append(@, caller)]
    ELSE ch

\* close() as it would be if it did not wake the sleeping broadcasters.
CloseSilently(ch) == [ch EXCEPT !.queue = <<>>, !.phase = "closed"]

\* close(): every broadcaster that waits for the channel goes on.
Close(ch) == [ch EXCEPT !.queue = <<>>, !.phase = "closed",
                        !.drainers = <<>>, !.listeners = {}]

\* unsubscribe({ drain }) as it would be without draining.
ClosesAlways(ch, drain) == TRUE

\* unsubscribe({ drain }) closes the channel, unless events are left to drain.
ClosesAtOnce(ch, drain) == ~drain \/ ch.queue = <<>>

Unsubscribe(ch, drain) ==
    IF ClosesAtOnce(ch, drain) THEN Close(ch) ELSE [ch EXCEPT !.phase = "draining"]

\* streamEvents() resumes after its yield: on the way out with nothing left to
\* drain it closes the channel and ends.
ClosesOnPull(ch) == ch.stream = "held" /\ ch.phase # "open" /\ ch.queue = <<>>

\* The wake-ups after an event as they would be without the drain deferrer's.
AcknowledgeListeners(ch, low) ==
    [ch EXCEPT !.stream = "idle",
               !.listeners = IF Len(ch.queue) <= low THEN {} ELSE @]

\* The wake-ups after an event as they would be if the listeners waited until
\* the queue is below the mark.
AcknowledgeBelow(ch, low) ==
    [ch EXCEPT !.stream = "idle",
               !.drainers = IF @ = <<>> THEN @ ELSE Tail(@),
               !.listeners = IF Len(ch.queue) < low THEN {} ELSE @]

\* After any other event it wakes one sleeping broadcaster and triggers the
\* drain listeners, which remove themselves when the queue is down to `low'.
Acknowledge(ch, low) ==
    IF ch.stream # "held" THEN ch
    ELSE [ch EXCEPT !.stream = "idle",
                    !.drainers = IF @ = <<>> THEN @ ELSE Tail(@),
                    !.listeners = IF Len(ch.queue) <= low THEN {} ELSE @]

\* One turn of its loop: end, yield the next event, or (still "idle") sleep.
Advance(ch) ==
    CASE ch.phase = "closed" -> [ch EXCEPT !.stream = "ended"]
      [] ch.phase # "closed" /\ ch.queue # <<>> ->
            [ch EXCEPT !.queue = Tail(@), !.stream = "held"]
      [] ch.phase = "draining" /\ ch.queue = <<>> -> [ch EXCEPT !.stream = "ended"]
      [] OTHER -> ch

\* next() on the stream.
Pulled(ch, low) ==
    IF ClosesOnPull(ch) THEN [Close(ch) EXCEPT !.stream = "ended"]
                        ELSE Advance(Acknowledge(ch, low))
=============================================================================
