---------------------------- MODULE WorkerChannel ----------------------------
(***************************************************************************)
(* The queue of core/coordination/worker-channel.ts together with the one  *)
(* loop that reads its stream():                                           *)
(*   at   where the reader is: "absent", "running" between two reads,      *)
(*        "holding" an item, "asleep" in the deferrer, "ending" once the   *)
(*        stream returned, and how its user left it                        *)
(*   got  the items it was given                                           *)
(* A reader that push() or close() wakes runs before anything else looks   *)
(* at the channel: its continuation is the next microtask.                 *)
(***************************************************************************)
EXTENDS Naturals, Sequences

NewChannel(at) == [queue |-> <<>>, closed |-> FALSE, at |-> at, got |-> <<>>]

\* stream() as it would be if it looked at the flag before the queue.
PullUnlessClosed(ch) ==
    IF ch.closed THEN [ch EXCEPT !.at = "ending"]
    ELSE IF ch.queue # <<>>
    THEN [ch EXCEPT !.queue = Tail(@), !.at = "holding", !.got = Append(@, Head(ch.queue))]
    ELSE [ch EXCEPT !.at = "asleep"]

\* stream() as it would be if it took the item pushed last.
PullLast(ch) ==
    IF ch.queue # <<>>
    THEN [ch EXCEPT !.queue = SubSeq(@, 1, Len(@) - 1), !.at = "holding",
                    !.got = Append(@, ch.queue[Len(ch.queue)])]
    ELSE [ch EXCEPT !.at = IF ch.closed THEN "ending" ELSE "asleep"]

\* One turn of the loop of stream(): what is queued is read first, even after
\* the channel was closed.
Pull(ch) ==
    IF ch.queue # <<>>
    THEN [ch EXCEPT !.queue = Tail(@), !.at = "holding", !.got = Append(@, Head(ch.queue))]
    ELSE [ch EXCEPT !.at = IF ch.closed THEN "ending" ELSE "asleep"]

\* The reader goes on if it was asleep.
Wake(ch) == IF ch.at = "asleep" THEN Pull(ch) ELSE ch

\* push(): accepted by a closed channel too.
Push(ch, item) == Wake([ch EXCEPT !.queue = Append(@, item)])

\* close()
Close(ch) == Wake([ch EXCEPT !.closed = TRUE])
=============================================================================
