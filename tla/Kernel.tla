------------------------------- MODULE Kernel -------------------------------
(***************************************************************************)
(* DuctusKernel around the sequencer: the commit listener that feeds the   *)
(* reducer and queues the events it derives, the cascading loop that       *)
(* broadcasts them, the causation check, snapshots, shutdown, and the      *)
(* hydration of the store from the ledger of earlier processes.            *)
(*                                                                         *)
(* A commit is one step: it numbers the event, appends a durable one and   *)
(* runs the listener.  The reducer is deterministic; it derives any events *)
(* and may throw for an event, whenever it sees that event.                *)
(***************************************************************************)
EXTENDS Naturals, Sequences, SequencesExt

CONSTANTS
    MaxCommits,   \* bound on the number of commits
    MaxDerived,   \* events the reducer derives from one event, at most
    MaxStarts,    \* bound on the number of processes
    Processors,   \* number of processors
    DepthLimit,   \* depthLimit of the causation check
    Window,       \* how far back in numbers the causation graph reaches
    EvictEvery,   \* the graph forgets at multiples of this number
    Snapshots,    \* the store takes snapshots
    MayFail       \* broadcasts may fail and the reducer may throw

ASSUME KernelBounds ==
    /\ MaxCommits \in Nat /\ MaxDerived \in Nat /\ MaxStarts \in Nat /\ Processors \in Nat
    /\ DepthLimit \in Nat /\ Window \in Nat /\ EvictEvery \in Nat \ {0}
ASSUME KernelFlags == Snapshots \in BOOLEAN /\ MayFail \in BOOLEAN

VARIABLES
    events,    \* every commit of every process; an event is its place here
    snapshot,  \* the last snapshot: its number and the state it holds
    run,       \* number of processes started
    up,        \* a process runs
    lastSeq,   \* the sequencer's lastSequenceNumber
    state,     \* the state: the events that the reducer folded into it
    listening, \* the commit listener is registered
    graph,     \* the events in causationGraph
    cascade,   \* cascadingEvents: a derived event is its cause and its index
    loop,      \* where the cascading loop is
    draft,     \* the derived event it broadcasts
    active,    \* number of processors whose loop has not ended
    failed,    \* number of processors whose broadcast failed
    kernel     \* isShutDownStarted, isShuttingDown and the canceller's flag

disk == <<events, snapshot>>
memory == <<lastSeq, state, listening, graph, cascade>>
loops == <<loop, draft, active, failed>>
vars == <<disk, run, up, memory, loops, kernel>>

Running == [started |-> FALSE, graceful |-> FALSE, cancelled |-> FALSE]
External == [cause |-> 0, index |-> 0]

\* The events of the ledger, and those of the set S in their order.
Durable == {i \in 1..Len(events) : ~events[i].volatile}
Chosen(S) == FlattenSeq([i \in 1..Len(events) |-> IF i \in S THEN <<i>> ELSE <<>>])

Init ==
    /\ events = <<>> /\ snapshot = [seq |-> 0, state |-> <<>>]
    /\ run = 0 /\ up = FALSE
    /\ lastSeq = 0 /\ state = <<>> /\ listening = FALSE /\ graph = {} /\ cascade = <<>>
    /\ loop = "exited" /\ draft = External /\ active = 0 /\ failed = 0
    /\ kernel = Running

\* The replay as it would be if it began with the event of the snapshot.
ReplayedFromSnapshot == Chosen({i \in Durable : events[i].seq >= snapshot.seq})

\* The events that hydrateStore() dispatches to the restored state.
Replayed == Chosen({i \in Durable : events[i].seq > snapshot.seq})

\* boot(): hydration, which drops what the reducer derives and fails when it
\* throws again, then the commit listener and the loops.
Boot ==
    LET durable == Chosen(Durable)
    IN  /\ ~up /\ run < MaxStarts
        /\ \A i \in ToSet(Replayed) : ~events[i].poison
        /\ run' = run + 1 /\ up' = TRUE
        /\ lastSeq' = IF durable = <<>> THEN 0 ELSE events[Last(durable)].seq
        /\ state' = snapshot.state \o Replayed
        /\ listening' = TRUE /\ graph' = {} /\ cascade' = <<>>
        /\ loop' = "running" /\ draft' = External /\ active' = Processors /\ failed' = 0
        /\ kernel' = Running
        /\ UNCHANGED disk

\* The process ends or dies; its memory is lost.
Crash ==
    /\ up /\ up' = FALSE
    /\ lastSeq' = 0 /\ state' = <<>> /\ listening' = FALSE /\ graph' = {} /\ cascade' = <<>>
    /\ loop' = "exited" /\ draft' = External /\ active' = 0 /\ failed' = 0
    /\ kernel' = Running
    /\ UNCHANGED <<disk, run>>
-----------------------------------------------------------------------------
\* What the graph keeps when the event of this number arrives.
Kept(g, seq) ==
    IF seq % EvictEvery # 0 THEN g ELSE {i \in g : events'[i].seq + Window >= seq}

\* Number of events on the chain of causes that starts at id, as far as g goes.
Depth(commits, g, id) ==
    LET f[i \in 0..id] == IF i \in g THEN 1 + f[commits[i].cause] ELSE 0
    IN  f[id]

\* The causation check as it would be if it let one event more through.
TooDeepByTwo(g, id) == Depth(events', g, id) > DepthLimit + 1

\* The causation check meets a node after depthLimit jumps.
TooDeep(g, id) == Depth(events', g, id) > DepthLimit

\* The loop as it would be if a commit did not call its resolver.
StillAsleep(where) == where

\* The loop when its resolver is called.
Woken(where) == IF where = "asleep" THEN "running" ELSE where

\* The cascade as it would be if derived events were inserted at the front.
QueuedFirst(new) == new \o cascade

\* cascadingEvents.insertLast() of each derived event.
Queued(new) == cascade \o new

\* The commit listener on event id, from which the reducer derives n events;
\* it finds the loop at where.
Listen(id, n, where) ==
    LET e == events'[id]
        g == Kept(graph \cup {id}, e.seq)
        stop == n > 0 /\ TooDeep(g, id)
        new == [k \in 1..n |-> [cause |-> id, index |-> k]]
    IN  /\ graph' = g
        /\ IF e.volatile THEN
               UNCHANGED <<state, snapshot, cascade, kernel>> /\ loop' = where
           ELSE
               /\ state' = Append(state, id)
               /\ \/ UNCHANGED snapshot
                  \/ Snapshots /\ snapshot' = [seq |-> e.seq, state |-> state']
               /\ IF kernel.cancelled THEN UNCHANGED <<cascade, kernel>> /\ loop' = where
                  ELSE IF stop THEN
                      /\ kernel' = [kernel EXCEPT !.cancelled = TRUE]
                      /\ cascade' = cascade /\ loop' = where
                  ELSE /\ cascade' = Queued(new) /\ loop' = Woken(where)
                       /\ UNCHANGED kernel

\* Commits that the bound leaves room for, beside the queued ones.
Room == MaxCommits - (Len(events) + Len(cascade) + IF loop = "sending" THEN 1 ELSE 0)

\* sequencer.commit() of an event, for a caller that leaves the loop at where.
Commit(from, volatile, n, where) ==
    LET e == [seq |-> lastSeq + 1, cause |-> from.cause, index |-> from.index, run |-> run,
              volatile |-> volatile, poison |-> FALSE, derives |-> n]
    IN  /\ n > 0 => listening /\ ~volatile /\ ~kernel.cancelled
        /\ events' = Append(events, e)
        /\ lastSeq' = e.seq
        /\ IF listening THEN Listen(Len(events'), n, where)
           ELSE UNCHANGED <<snapshot, state, graph, cascade, kernel>> /\ loop' = where

\* A commit of a durable event whose reducer throws: it is in the ledger and in
\* the graph, and commit() rejects.
CommitThrows(from) ==
    LET e == [seq |-> lastSeq + 1, cause |-> from.cause, index |-> from.index, run |-> run,
              volatile |-> FALSE, poison |-> TRUE, derives |-> 0]
    IN  /\ MayFail /\ listening
        /\ events' = Append(events, e)
        /\ lastSeq' = e.seq
        /\ graph' = Kept(graph \cup {Len(events')}, e.seq)
        /\ UNCHANGED <<snapshot, state, cascade, kernel>>

\* broadcast() rejects before the event is in the ledger.
BroadcastFails ==
    MayFail /\ UNCHANGED <<disk, lastSeq, state, graph, cascade, kernel>>

\* A processor broadcasts an event, in answer to one that it received or to
\* none; its loop ends when it then finds the canceller cancelled.
ProcessorBroadcasts ==
    /\ active > failed /\ Room > 0
    /\ \E cause \in {0} \cup graph :
        LET from == [cause |-> cause, index |-> 0]
        IN  \/ /\ \E volatile \in BOOLEAN, n \in 0..MaxDerived :
                      n < Room /\ Commit(from, volatile, n, loop)
               /\ active' = IF kernel'.cancelled THEN active - 1 ELSE active
               /\ UNCHANGED failed
            \/ /\ CommitThrows(from) \/ BroadcastFails
               /\ failed' = failed + 1
               /\ UNCHANGED <<active, loop>>
    /\ UNCHANGED <<run, up, listening, draft>>

\* The generator of a processor returns.
ProcessorEnds ==
    /\ active > failed
    /\ active' = active - 1
    /\ UNCHANGED <<disk, run, up, memory, loop, draft, failed, kernel>>
-----------------------------------------------------------------------------
\* One turn of the cascading loop up to its next await.
LoopTurn ==
    /\ loop = "running"
    /\ \/ /\ kernel.cancelled
          /\ loop' = "exited" /\ UNCHANGED <<draft, cascade>>
       \/ /\ ~kernel.cancelled /\ cascade # <<>>
          /\ draft' = Head(cascade) /\ cascade' = Tail(cascade) /\ loop' = "sending"
       \/ /\ ~kernel.cancelled /\ cascade = <<>>
          /\ loop' = IF kernel.graceful THEN "exited" ELSE "asleep"
          /\ UNCHANGED <<draft, cascade>>
    /\ UNCHANGED <<disk, run, up, lastSeq, state, listening, graph, active, failed, kernel>>

\* The broadcast of the loop commits or rejects.
LoopBroadcasts ==
    /\ loop = "sending"
    /\ \/ \E volatile \in BOOLEAN, n \in 0..MaxDerived :
              n <= Room /\ Commit(draft, volatile, n, "sent")
       \/ (CommitThrows(draft) \/ BroadcastFails) /\ loop' = "failed"
    /\ draft' = External
    /\ UNCHANGED <<run, up, listening, active, failed>>

\* The broadcast of the loop returns.
LoopReturns ==
    /\ loop = "sent" /\ loop' = "running"
    /\ UNCHANGED <<disk, run, up, memory, draft, active, failed, kernel>>

\* shutdown() as it would be if it left the cascading loop to itself.
ShutDownAsleep(force, where) ==
    /\ kernel' = IF kernel.started THEN [kernel EXCEPT !.cancelled = @ \/ force]
                 ELSE [started |-> TRUE, graceful |-> ~force, cancelled |-> kernel.cancelled \/ force]
    /\ listening' = FALSE
    /\ loop' = where

\* shutdown(): flags, wake-up of the cascading loop, end of the listener.  A
\* second call only cancels, if forced.
ShutDown(force, where) ==
    /\ kernel' = IF kernel.started THEN [kernel EXCEPT !.cancelled = @ \/ force]
                 ELSE [started |-> TRUE, graceful |-> ~force, cancelled |-> kernel.cancelled \/ force]
    /\ listening' = FALSE
    /\ loop' = IF kernel.started THEN where ELSE Woken(where)

\* Somebody calls shutdown(), the second call being also what its timer does.
Stop ==
    /\ up
    /\ \E force \in BOOLEAN : ShutDown(force, loop)
    /\ UNCHANGED <<disk, run, up, lastSeq, state, graph, cascade, draft, active, failed>>

\* The error of the cascading loop or of a processor's loop reaches its handler.
Abort ==
    /\ \/ loop = "failed" /\ ShutDown(TRUE, "exited") /\ UNCHANGED <<active, failed>>
       \/ /\ failed > 0 /\ ShutDown(TRUE, loop)
          /\ active' = active - 1 /\ failed' = failed - 1
    /\ UNCHANGED <<disk, run, up, lastSeq, state, graph, cascade, draft>>

\* The application cancels the token the kernel was given, once.
CancelBase ==
    /\ up /\ ~kernel.cancelled
    /\ kernel' = [kernel EXCEPT !.cancelled = TRUE]
    /\ UNCHANGED <<disk, run, up, memory, loops>>

LoopStep == LoopTurn \/ LoopBroadcasts \/ LoopReturns

\* No process can be started any more.
Over == ~up /\ UNCHANGED vars

Next ==
    \/ Boot \/ Crash \/ ProcessorBroadcasts \/ ProcessorEnds
    \/ LoopStep \/ Abort \/ Stop \/ CancelBase \/ Over

\* No broadcast waits for a channel that is left open without a reader: the
\* readers go on until the kernel is cancelled, and a first shutdown() that is
\* forced closes every channel.  Otherwise a broadcast may wait for ever.
Drains == ~kernel.cancelled \/ (kernel.started /\ ~kernel.graceful)

Fairness ==
    /\ WF_vars(LoopTurn) /\ WF_vars(Abort)
    /\ WF_vars(Drains /\ (LoopBroadcasts \/ LoopReturns))

Spec == Init /\ [][Next]_vars /\ Fairness
-----------------------------------------------------------------------------
\* While the listener is registered the state is the fold of the durable events
\* of all processes, each once and in order, less those the reducer refused,
\* whatever snapshots were taken and lost in between.
StateFollowsLedger ==
    listening => state = Chosen({i \in Durable : ~events[i].poison})

\* Unless the kernel is cancelled, every event that the reducer derived in this
\* process is committed, in flight or queued, once and in the order of its
\* causes; a restart derives nothing again.
DerivedOnceInOrder ==
    LET Mine(i) == events[i].run = run
        committed == FlattenSeq([i \in 1..Len(events) |->
            IF Mine(i) /\ events[i].index > 0
            THEN <<[cause |-> events[i].cause, index |-> events[i].index]>> ELSE <<>>])
        flying == IF loop = "sending" THEN <<draft>> ELSE <<>>
        derived == FlattenSeq([i \in 1..Len(events) |->
            IF Mine(i) THEN [k \in 1..events[i].derives |-> [cause |-> i, index |-> k]]
            ELSE <<>>])
    IN  up /\ ~kernel.cancelled /\ loop # "failed" => committed \o flying \o cascade = derived

\* No event is derived at the end of a chain of more than depthLimit causes,
\* as long as the chain lies within the window of the causation graph.
DepthIsBounded ==
    \A i \in 1..Len(events) : events[i].index > 0 =>
        LET cause == events[i].cause
            recent == {j \in 1..cause : /\ events[j].run = events[i].run
                                        /\ events[j].seq + Window >= events[cause].seq}
        IN  Depth(events, recent, cause) <= DepthLimit

\* The cascading loop never sleeps through an event that is queued for it.
CascadeDrains ==
    cascade # <<>> ~> cascade = <<>> \/ kernel.cancelled \/ loop = "failed"

\* Once shutdown() was called, in any mode and at any moment, the cascading loop
\* ends, on its own failures too, unless a cancellation found it in a broadcast
\* and not every channel was closed: that broadcast may have been abandoned.
CascadeLoopExits ==
    kernel.started ~> loop = "exited" \/ (loop \in {"sending", "sent"} /\ ~Drains)
=============================================================================
