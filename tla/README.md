# Ductus in TLA+

Ductus is a TypeScript framework for event-sourced agent workflows: processors
are async generators that read a stream of committed events and yield new ones;
every event is numbered and hash-chained by a sequencer, appended to a JSONL
ledger when it is durable, and fanned out to the channels of all processors by
a multiplexer. This directory holds a TLA+ model of that machinery, the TLC
runs that check it on small instances and the TLAPS proofs about it. All paths
below are relative to `src/packages/core/src/`, line numbers included.

## The system

| Part | State it keeps | Operations | Talks to |
|---|---|---|---|
| Mutex, deferrer (`core/mutex.ts`, `core/default-deferrer.ts`) | `isLocked`, a queue of sleeping callers | `lock`, and the hand-over at its end | sequencer, multiplexers |
| Event sequencer (`core/default-event-sequencer.ts`) | last number, last durable hash, hydrated flag, commit listeners | `commit`, `onCommit` | ledger, store, requests |
| JSONL ledger and file adapters (`ledger/`, `system/node-*file*`, `utils/ledger-utils.ts`) | the file, one open handle and its write queue | append, read last line, replay after a number, verify | sequencer, kernel |
| Event channel (`core/event-channel.ts`) | queue, stream deferrer, drain deferrer, drain and termination listeners, two flags | enqueue, stream, wait for drain, unsubscribe, close | multiplexer, processor loop |
| Multiplexers (`core/multiplexer/`) | list of channels, a mutex | `subscribe`, `broadcast` with one of three policies for slow consumers | sequencer, channels |
| Intent processor (`core/intent-processor.ts`) | the value for the next `next()`, the triggering event | the loop of one processor; request and response intents | multiplexer, sequencer |
| Kernel and store (`core/ductus-kernel.ts`, `core/ductus-store.ts`) | cascade queue, causation graph, shutdown flags, the state | boot with hydration, cascading loop, shutdown (graceful or forced) | all of the above |
| Canceller (`system/canceller.ts`) | flag, listeners, base token | `cancel`, `onCancel` | loops, processes |
| Worker coordination (`core/coordination/`, `core/semaphore.ts`) | worker channels, worker sets, permits | distribute, scale, run concurrently | processors |
| Reactions (`utils/internals.ts`, `builders/immutable-reaction-builder.ts`) | the value that flows through the steps, the context of the invocation | run the steps of a reaction for one event | agents, multiplexer |
| Agents (`core/agent-*.ts`, `core/conversation.ts`, `core/context-policies/`) | agent states, conversations, token and failure counters | dispatch, hand-off, tool loop, context limits | reactions |
| Lists and listeners (`core/linked-list.ts`, `core/default-event-listener.ts`) | a doubly linked list of callbacks | add, remove, trigger | channels, requests |
| Process adapters (`system/node-process-adapter.ts`, `system/node-system-adapter.ts`) | child processes, their channels, kill timers | spawn, write, read, shut down, kill, terminate all | tools of agents |
| Builders, factories, demos | nothing after construction | build; use | all |

Everything runs on one JavaScript thread: code between two `await`s is atomic,
and what is hard is what happens at the `await`s. The hazards are listed with
their lines in `PROJECT.json`; the groups are

- **hand-over**: a promise is resolved in one microtask and its continuation
  runs in a later one (mutex, stream and drain deferrers, drain listeners);
- **state across an await**: number and hash during an append, thresholds and
  water marks during a commit, an agent's state during a model call;
- **failure**: a commit that rejects, a generator that throws, an overloaded
  consumer, a worker or a tool that fails, the process dying while it writes;
- **ending**: graceful and forced shutdown, channels closing under readers and
  waiters, cancellation by a timer, child processes that end by themselves.

What makes each part correct, in one line: the mutex excludes and is fair; the
ledger is one hash chain which holds every durable event that was announced;
numbers have no gaps within a process; every channel sees every committed event
in commit order until it is unsubscribed; waiting broadcasters, sleeping readers
and loops are always woken; backpressure bounds the queues it says it bounds;
an asker gets the answer to its own question; the state is the fold of the
ledger; workers get each event once, a key's events in order; a conversation
consists of whole turns; no output of a process is lost, and no signal is sent
to one that is gone.

## Modules

| Module | Models | State and actions |
|---|---|---|
| `Mutex` | `mutex.ts` as a record with operators | `Lock`, `Unlock`, `WokenByUnlock` |
| `MutexClients` | concurrent callers, with the gap between wake-up and resumption | `CallLock`, `Resume`, `Leave` |
| `FifoLock` | abstract lock: a queue whose head owns it | implemented by `MutexClients` |
| `LedgerFile` | the file as lines, a flag for the final newline, and what append, replay and last line do with it | operators |
| `EventSequencer` | `commit()` from call to settlement, the file, crashes | `Commit`, `Stamp` (hydration and numbering), `HydrationFails`, `Write`, `WriteFails`, `Announce`, `Crash` |
| `LedgerScan` | the backward scan of the file, chunk by chunk, over every small file and chunk size, and what it hands over | `ScanAfter`, `ScanLast`, `AtStart`, `YieldLine`, `EndScan` |
| `FileHandle` | the ledger's cached handle and its write queue, with `dispose()` at any time | `AppendEvent`, `Opens`, `OpenFails`, `Enter`, `ChunkWritten`, `Fails`, `Dispose`, `Closes`, `HandleClosed` |
| `EventChannel` | `event-channel.ts` as a record with operators | one operator per method |
| `OrderedBroadcast` | abstract: one log, an inbox per member, members may leave | implemented by `Multiplexers` |
| `MultiplexerCore` | channels, subscription list, processor loops, cascading loop, shutdown | `Pull`, `Wake`, `YieldNothing`, `Loop`, `Return`, `Throw`, `Abort`, `Stop`, `Cancel`, `Leave`, `StopObserving`, `SourceExits`, and the shared parts of `broadcast()` |
| `BlockingMultiplexer`, `FailFirstMultiplexer`, `ThrottleMultiplexer` | `broadcast()` of each policy | `CallBlocking`, `WaitForConsumers`, `Drained`; `CallFailFirst`, `Check`; `CallThrottle`, `Recovered`, `Stall`, `Admit` |
| `Multiplexers` | the kernel with any of the three | composition |
| `Requests` | request and response intents of `intent-processor.ts` | `Ask`, `Answer`, `Commit`, `CommitFails`, `Return`, `Resume`, `Timeout`, `Abort`, `Read`, `Finish` |
| `Kernel` | `ductus-kernel.ts` around the sequencer, over several processes on one ledger | `Boot`, `Crash`, `ProcessorBroadcasts`, `ProcessorEnds`, `LoopTurn`, `LoopBroadcasts`, `LoopReturns`, `Stop`, `Abort`, `CancelBase` |
| `WorkerChannel`, `Distribution` | a worker's channel as a record; the four strategies as functions of worker set and event | operators |
| `Coordination` | the generators of the fixed and the dynamic cluster and of the concurrent processor, with their workers | `Distribute`, `InputEnds`, `SelectThrows`, `Acquire`, `Tick` (scaling), `WorkerPulls`, `WorkerYields`, `WorkerReturns`, `WorkerQuits`, `WorkerThrows`, `ReaderPulls`, `Settle` |
| `ContextPolicies`, `Handoff` | the policies as operators on message lists; what a hand-off passes on | operators |
| `Agents` | concurrent dispatches to one agent, from `getOrCreate()` through limits, hand-off, tool loop and retries to the record of the turn; reset and termination | `Invoke`, `Create`, `CheckLimits`, `RenderHandoff`, `Reset`, `ApplyPolicy`, `StartTurn`, `CallTools`, `Answer`, `AssertPasses`, `AssertFails`, `InvocationThrows`, `TerminateAll`, ... |
| `ReactionPipeline` | `executePipeline()` over every pipeline the builder can make | `Trigger`, `Emit`, `Invoke`, `Transform`, `Validate`, `Branch`, `Fail`, `SkipHandler`, `Finish` |
| `NodeProcess` | a child process with its channels, kill timer and cancel listeners, as a record with operators | operators |
| `NodeSystem` | several of them under the system adapter, with `terminate()` | `Spawn`, `ReadStream`, `ReadNext`, `Write`, `GracefullyShutdown`, `Kill`, `Cancel`, `Timeout`, `Data`, `StreamError`, `Ends`, `Close`, `Terminate`, `TerminateReturns` |
| `LinkedList`, `EventListeners` | the list on its pointers; `trigger()` with callbacks that change the list | `PutFirst`, `PutLast`, `TakeFirst`, `TakeLast`, `TakeOut`, `TakeAll`, `StartWalk`, `Call` |
| `StandaloneParts` | mutex, scan, file handle, pipeline and list, one of them per behaviour | composition |
| `PartsProofs` | proofs about `MutexClients`, `FileHandle`, `NodeSystem`, `ReactionPipeline`, `EventListeners` and `LedgerScan` | |
| the other `...Proofs` | proofs about the module of that name | |
| `SharedLemmas` | least numbers, induction up to a number, sequences, `FlattenSeq` one part at a time, `Lock` and `Unlock` | |
| `MC...` | values of the constants for TLC | |

The compositions: `EventSequencer` uses `LedgerFile` and `Mutex`; the
multiplexers use `MultiplexerCore`, which uses `EventChannel` and `Mutex`, and
they see the sequencer as its promise: a commit takes a while and then either
numbers the event or fails (`FanOut`, `CommitFails`). `EventSequencer` is where
that promise is checked. `Requests` and `Kernel` see a broadcast as the
multiplexer modules do from outside: it commits in one step, which runs the
commit listeners, and returns some time later, or it fails. In `Kernel` the
replay of the ledger returns every event after the snapshot, which is what the
backward scan of the file is meant to do. `Coordination` uses `WorkerChannel`
and `Distribution`, `Agents` uses `ContextPolicies` and `Handoff`, `NodeSystem`
uses `NodeProcess`. `StandaloneParts` puts parts that do not influence each
other side by side, so that one run covers them; a behaviour is a behaviour of
one of them. A definition whose comment says "as it would be if" is a plausible
mistake in the code, kept beside the definition it would replace; no
specification uses it, and each checked property is violated when one of them
takes the place of the right one (`mutants` in `PROJECT.json`).

How state corresponds to code: `pc[a]` says at which `await` an actor is;
`"ready"` and `"woken"` are actors whose promise is resolved and whose
continuation is still queued. A channel is one record: `phase` stands for
`isTerminationRequested` and `isTerminated`, `stream` for the position of
`streamEvents()`, `drainers` for the queue of the drain deferrer, `listeners`
for callbacks of `waitForRecovery()`. An event is its number (multiplexers) or
identity, number and previous hash (sequencer); the hash is collision-free, so
the identity stands for it. In `Kernel` an event is its place in the list of all
commits, with its number, its cause and, if the reducer derived it, its index
among the events derived from that cause; the state is the sequence of the
events folded into it. In `Requests` an event is its kind, its chain and whether
its type is the one the asker waits for. In `Agents` a message is its turn and
its role, in `LedgerScan` a line is its number and its width, in `FileHandle` a
line is the number of its call. Payloads, names and texts are left out.

Two assumptions are about the JavaScript runtime. `ReadersResumed`: readers
that a fan-out woke run before the mutex is released, because their
continuations were queued earlier in the same microtask queue and take fewer
hops. `NobodyInTransit`: a commit takes longer than the few microtasks between
a broadcast's return and its loop's next step. From the check to the fan-out
even a volatile commit takes four hops (`ensureHydrated`, the await inside
`Mutex.lock`, the one in `commit` and the one in the multiplexer), a loop
between a broadcast and its next `consume` two, and a failing loop reaches
`shutdown` in three; a durable commit waits for a file. Without it
`QueuesKeepToLimit` fails, since a processor that is between the two counts as
not consuming; nothing else that is checked of the multiplexers needs it.

## Runs

| Run | Instance | Distinct states | Shows |
|---|---|---|---|
| `sequencer` | 3 callers, 4 commits, 2 crashes, appends that fail cleanly, torn fragments left by crashes | 88,939 | chain, persistence, numbering, call order, settlement |
| `multiplexers` | worker and sink with each of the three policies, sink and observer with the blocking one, cascading loop, 3 events, limit 1, marks 1 and 0, stall timer, failing commits and generators, graceful and forced shutdown and cancellation in any order | 144,332 | ordered broadcast, queue limits, waiters, recovery, broadcasts return, loops exit after shutdown, no event dropped, all events are read |
| `requests` | an asker, an answerer, a processor that is both, 2 requests, 4 broadcasts, timers, failing commits | 149,021 | own answer, none missed, nothing left behind, every request ends |
| `kernel` | 2 processes, 1 processor, 4 commits, up to 2 derived events each, depth limit 1, window 1 | 899,420 | state is the fold of the ledger, derived events once and in order, bounded depth, loop drains and ends |
| `coordination` | fixed cluster of 2, dynamic cluster of 1 to 2, concurrency 2, 3 events, at most 3 workers spawned, every strategy, failing workers, keys and filters | 379,621 | counters and permits, nothing lost, order of a key, the generator ends |
| `agents` | 2 callers (symmetric) of one agent, 3 turns, 4 tokens, 1 failure, 1 tool round, 1 retry, truncation or summaries of the context, resets, termination | 1,821,567 | whole turns, messages new once, limits |
| `process` | 2 child processes, one of them read; output, errors, writes, ends from four sides, `terminate()` | 371,534 | output kept, no signal to a dead process, `terminate()` waits and completes |
| `parts` | 4 callers of the mutex; pipelines of up to 4 steps, 2 events; files of up to 3 lines of width 3, chunks of 2 to 6; 4 callbacks; 3 appends, 3 handles | 270,574 | refinement of `FifoLock`, scan, list, handle, pipeline |
| `multiplexers_splice`, `multiplexers_timeout`, `scan`, `sequencer_torn_crash` | smaller instances | | expected violations: see below |

Bounds. Three commits need a committer, a waiter and a second waiter that is
overtaken or not; a fourth lets a commit follow a crash that followed a crash.
In the multiplexers three events let one be processed, one queued and one
committed at the same time; with limit 1 and marks 1 and 0 the second is at the
limit and the third beyond the mark. Two broadcasters and a reader give the
mutex a holder and a waiter and the pairs that matter: a loop that reads and
yields, one that only reads, one that only yields. No state is cut off: a
graceful shutdown may be interrupted by a failure, by a forced call (which is
also what its timer does) or by a token, and a kernel that a token cancelled may
still be shut down. An observer is checked with the blocking policy only: no
policy waits for one or counts its queue, since it is not `Consuming`, and the
list that it is taken off is the same code in all three. The proofs cover every
cast with every policy.

Two requests let one be answered late while the same or the other processor
makes the next; four broadcasts are two requests, an answer and a wrong answer.
In `Kernel` the source has a depth limit of 100, a window of 5000 numbers and
eviction at multiples of 100; the instance keeps their order of effect with 1, 1
and 3: a chain of two is refused, and by the third number the graph has
forgotten the first. Four commits are a cause, two derived events and one that
is derived from these or comes from the processor. `MaxCommits` counts queued
derived events too, so that the cascading loop is never kept from committing by
the bound.

In `Coordination` three events give two workers one each and one to be queued
behind another; three spawned workers are a cluster that grows, shrinks and
grows again. In `Agents` three turns of two callers let one caller record a turn
while the other is inside the model call and begin another before that returns;
a limit of four tokens is exceeded by the third turn. TLC runs two of the four
context policies, one that drops messages and one that replaces them; the proofs
cover all four. `MCEventsMatter` has events
committed only where a policy reads the ledger, in a summary. In `parts` three lines of width up to three with
chunks from two to six put a line on, across and inside every kind of chunk
boundary. `MaxCommits`, `MaxCrashes`, `MaxEvents`, `MaxTurns`, `MaxRounds`,
`MaxSpawned`, `MaxOutput`, `MaxErrors`, `MaxOpens`, `MaxSteps`, `MaxLines` are
the only counters that are cut off; `Quiescent`, `Exhausted` and their like let
a system that has nothing left to do stutter, so that TLC's deadlock check finds
everything else. `parts` and `scan` switch the check off, since their parts
really come to an end.

Fairness. A continuation whose promise is resolved runs (`Wake`, `Loop`,
`Resume`, `Drained`, ...), file operations settle (`Progress` and the steps of
`FileHandle`), an error handler runs (`Abort`), the timer of a request or of a
graceful shutdown fires unless it is cleared, a killed process closes, and
a broadcast under way settles in `Requests` (`Return`), where nothing cancels. In
`Kernel` it does so only while `Drains` holds: until the kernel is cancelled, or
when a first, forced shutdown closed every channel. That is what
`multiplexers` shows as `EveryBroadcastReturns`, with its exception. In
`Multiplexers` `Reads` is the one assumption about user code: a processor that
can read again and again does so, and returns at the end of its stream; it is
strong fairness because a yielding processor is not in a state to read all the
time. In `Coordination` the counterpart is that a worker returns to its stream.
Calls, crashes, failures, other timers and shutdown have no fairness: a request
without a timeout may stay pending for ever.

### What the violations say

- `multiplexers_splice`: closing a channel twice takes another subscriber off
  the list (`splice(-1, 1)`). It takes an unsubscription while the reader holds
  an event. All three multiplexers have it.
- `multiplexers_timeout`: the comment at `core/ductus-kernel.ts:131` says "Force
  kill the loops on timeout", but the timer only sets a flag. The cascading loop
  has broadcast an event and sleeps in `waitForDrain()` for the channel of a
  processor; a graceful shutdown leaves that channel draining; the timer, or a
  second forced call, cancels; the processor's loop sees the flag and leaves. Nobody
  reads or closes the channel any more, and the cascading loop sleeps for good. The
  same happens to a processor that waits for another one, and with the throttle
  policy to a broadcaster without stall timer.
- `scan`: a chunk of the backward scan that begins with a newline ends the scan
  (`system/node-ledger-file-adapter.ts:65`), while the comment in the next line
  says that it stops at the number searched or at the beginning of the file. The
  replay after a snapshot then misses the events before that chunk.
  `ScanReadsTheTail` is what does hold: whatever the scan hands over is a
  gapless tail of the file.
- `sequencer_torn_crash`: a crash that loses only the newline of the last event
  makes the next append merge with it. A rejected append that was written in
  part has the same effect without a crash (constant `AppendFaults`).

Disagreements between code and documentation that have no run of their own:

- `verifyLedgerAuthenticity()` says it verifies the integrity of a sequence of
  committed events (`utils/ledger-utils.ts:11-14`) and demands the numbers 1, 2, 3,
  ... (`:51`), so it rejects an intact ledger in which a volatile event was numbered
  between durable ones;
- a process is started by the first use of its adapter
  (`system/node-process-adapter.ts:40-46`), not by `spawn()`, which
  `interfaces/system-adapter.ts:46` says spawns it;
- `terminate()` of the system adapter says it terminates all commands and
  processes; commands of `execute()` are sent a signal and not awaited, and a
  second call reaches nobody, because its canceller works once;
- "All events from failed turns are included automatically" in a hand-off
  (`interfaces/builders/agent-builder.ts:130`), but `lastKnownSequence`
  (`core/agent-dispatcher.ts:32`) is never assigned and no turn knows its events;
  the dispatcher made by `factories.ts:203-210` has no ledger to read them from;
  the windows default to 0 (`core/agent-handoff.ts:149-150`), not to the
  documented 2 and 10 (`interfaces/builders/agent-builder.ts:136`);
- observation events of a dispatch that fails are dropped
  (`core/agent-dispatcher.ts:85`, `:125`), `.error(...)` steps also run their
  `.emit` after a success;
- "Routes all events with the same key to the same worker. Always."
  (`core/coordination/distribution/partition-by-strategy.ts:7`) does not survive a change of
  the worker set: the part of `KeysInOrder` about keys is about a fixed cluster.

### What the properties leave out

`StateFollowsLedger` speaks of the time while the commit listener is registered,
since a graceful shutdown takes it away before the channels have drained;
`DerivedOnceInOrder` ends with cancellation, since what is queued then is lost,
as it is in a crash; `DepthIsBounded` looks at chains within the window, since
the graph forgets older causes and everything at a restart; `CascadeDrains` and
`CascadeLoopExits` except a kernel that was cancelled by the depth limit or
through its base token while the loop slept: nobody wakes it before `shutdown()`.
`EveryBroadcastReturns` and `EveryLoopExits` except whoever is `Abandoned`, as in
`multiplexers_timeout`: the kernel is cancelled, and the reader of a channel that
is not closed is outside its generator, where the next thing it does is to leave
its loop. `CascadeLoopExits` has the same exception seen from outside: a loop that
is in a broadcast while `Drains` does not hold. In all three the exception needs a
cancelled kernel; a graceful shutdown that nothing interrupts ends every loop,
and so does a forced one that comes first.
A request whose timer fires before its broadcast has returned, or after it has
failed, rejects a promise that nobody awaits; Node.js then ends the process
(`alive`), and `EveryRequestSettles` counts that as an end.

Two limits do not hold as one might read them, by the same rule: a processor is
"consuming" only while its generator runs, so the thresholds of the fail-first
and throttle policies ignore the queue of a processor that is itself
broadcasting. `QueuesKeepToLimit` and the second part of `WaitersMatchBacklog`
therefore speak of processors that only read, the latter of those whose channel
still takes events: `waitForDrain()` returns once termination is requested, so
nobody waits for a channel on its way out. `ImplementsOrderedBroadcast`
speaks of every open channel while only the kernel subscribed (`OnlyKernel`),
and otherwise of those still on the list.

`GeneratorEnds` begins when the distributor is done: one that failed, because a
key function or a filter threw, leaves every worker channel open, and after an
error of a worker it ends only with the next event of its input. `NothingLost`
excepts a worker that returned before the end of its stream, whose queue nobody
reads; the dynamic cluster does not wait for its workers. `ConversationsAreTurns` is about what is kept: truncation may
still separate a tool message from its call. `LimitsOvershootOncePerCaller` is
the limit that holds: each concurrent caller passes the check before any of them
is counted. Concurrent calls of `getOrCreate()` make two states for one agent,
the later one wins, and a success in flight undoes a reset; the model has both.
A `kill()` after a graceful request does nothing: the process ends by itself or by
the timer, which is what `TerminationCompletes` counts on. What a request
without drain discards is not missed by `OutputIsKept`, and events pushed after
a request are still read, although `interfaces/system-process-adapter.ts:11-12` says
they are not received.
`AppendsKeepCallOrder` orders lines by call; a batch that fails rejects members
that were written, and an append after `dispose()` opens the file again.

## Proofs

tlapm proves, for every value of the constants:

- `PartsProofs`, first part: `LockIndInv` (the mutex is locked exactly while it
  is owned or promised, its queue is the set of sleepers without repetition), from
  it `MutualExclusion`, and that `MutexClients` implements `FifoLock`: `LockQueue`,
  the owner followed by the sleepers, loses its head in `Leave`, gains a last
  element in `CallLock` and does not change in `Resume`. `SharedLemmas` has what
  this and the other proofs need of `Lock` and `Unlock`.
- `EventSequencerProofs`: `IndInv` of the sequencer and from it `ChainIntact`,
  `AnnouncedArePersisted` and `AnnouncedWithoutGaps`. None of the three is
  inductive: one needs that the draft being written still follows the counters
  (`InSync`), which holds since only the owner of the mutex changes them
  (`Serialised`), and that nothing is appended behind a torn tail
  (`TornTailIsLast`). The assumption `FaultsAreClean` (a rejected append leaves
  nothing, a torn tail is a fragment that does not parse) is needed: without it
  the property is false, as `sequencer_torn_crash` shows. Fragments are refused
  by the next hydration, so the ledger then stays as it is.
  `CommitsInCallOrder` needs no assumption on the faults: its invariant
  `CallOrder` says that the announced, the owner of the mutex and its waiters, in
  this order, follow the order of the calls, and rests on `TypeOK` and
  `Serialised` alone (`Base`).
- `RequestsProofs`: `ResumedWithOwnAnswer`, `NoAnswerIsMissed` and
  `SettledIsCleared`, from an invariant that relates promise, listener, timer and
  log. The first is not inductive: that a resolved promise holds the first
  response needs that the listener was there from the beginning
  (`PendingListens`), that no response came before (`NoAnswerIsMissed`), and that
  a fresh chain is carried by no event yet (`ChainsAreIssued`).
- `PartsProofs`, second part: `AppendsKeepCallOrder`. There is one writer, the
  cached handle; the lines of the file, the batch being written, its queue and the
  callers that still wait for the handle follow each other in the order of the
  calls, and every step moves a line from one to the next.
- `PartsProofs`, third part: `OutputIsKept`, `TimerRunsWhileAlive` and
  `TerminateWaitsForAll`. The invariant is per process (`Sound`: what an ended
  process has given up, and that what was pushed is what was read followed by
  what is queued), each operator of `NodeProcess` preserves it, and for
  `terminate()` whoever is neither awaited any more nor ended is new (`Awaited`).
- `PartsProofs`, fourth part: `RunsOnTwoTracks` and `EventsCarryTheirResult`, for
  pipelines of any length, any number of events and every step that may fail.
  Neither is inductive. The track needs that a run which is not over has executed
  every ordinary step between its last one and the next (`RunsAhead`); the result
  needs that the value held is the one that the executed steps make, and that
  nothing was emitted from behind the next step (`EmittedBehind`), so that a later
  step does not change what an emitted event should carry.
- `PartsProofs`, fifth part: `ListIsASequence`, for any number of callbacks. The
  properties of walking forwards and backwards follow from one invariant on
  pointers (`Shows`), which every operation of the list keeps; a list read
  backwards is a list with its ends and pointers exchanged (`LinkedBackwards`), so
  an insertion in front is one at the end. `Walk` is a recursive function, and
  `WalkLeads` gives its closed form: after n steps, the first n nodes. That nobody
  is called twice holds because the nodes from the walk's place on were not called
  (`WalkGoesOn`); it relies on callbacks that take out only themselves or add at
  the end, as those in the source do.
- `PartsProofs`, sixth part: `ScanReadsTheTail`, for files and lines of any size,
  chunks of any size, and whatever a crash did to the end of the file. A file has
  `Borders`, the places where its lines end (`FileHasBorders`); a newline anywhere
  in it is one of them (`NewlineIsBorder`). `Split` is a fold over bytes, and
  `SplitCuts` gives what it computes, a byte at a time (`SplitStep`, `CutsStep`):
  places between which the parts lie. They can only be the borders of the file
  (`RestIsCutAtBorders`), so a chunk with what was left of the one behind it
  consists of a part of one line and whole lines behind that (`Parted`), of which
  the scan keeps those behind the last older one (`KeptAreLines`, one line at a
  time by `FlattenSeq`). The invariant says of a scan that searches which line is
  left over and that all behind it have been found, and of one that hands over
  that the lines read and those still to come follow each other up to the last
  (`Searching`, `Handing`). It leaves open where they begin: a scan for newer lines
  may stop too early (run `scan`).

  The theorems of the last three parts are about the part's own specification
  (`ReactionSpec`, `ListSpec`, `ScanSpec`), a behaviour of which is one of
  `StandaloneParts` in which the other parts rest.
- `CoordinationProofs`: `Accounted`, `NothingLost` and `KeysInOrder`, for any
  number of workers, events and permits and all four strategies. What makes them
  inductive: the worker set names running workers with open channels as long as
  nothing failed (`InputsOpen`), a worker that has ended has read its channel to
  the end (`WorkersOK`), and what a worker was given is what it got followed by
  what is queued for it (`Given`), which only a push by the distributor extends,
  with an event beyond all that were handed out (`Ordered`, `OneWorkerEach`). In a
  partitioned cluster every event up to the last one read is at the owner of its
  key (`Partitioned`).
- `KernelProofs`: `StateFollowsLedger`, `DerivedOnceInOrder` and `DepthIsBounded`,
  for any number of processes, commits and derived events, with and without
  snapshots and failures. Numbers restart below those of lost volatile events, so
  the proof needs that those of the ledger increase across the processes and that
  the snapshot's is not beyond them (`Numbers`), that the snapshot is the fold up to
  its number (`SnapshotOK`), that the causation graph has every event of this
  process in the window (`GraphOK`), and that whatever is queued, in flight or
  committed was let through by the check (`Sources`). Every commit, whoever makes
  it, has one `Effect`. `Depth` and the fold are recursive: `ShallowerInLess` (a
  chain seen in part is not longer) and `UpToStep` (one event more is appended)
  bring them down to steps, by induction over the least counterexample.
- `AgentsProofs`, first part: `LimitsOvershootOncePerCaller`. The counters alone
  are not inductive; counters plus the callers that are past the check stay below
  the limit plus the number of callers, for any finite set of callers.
- `AgentsProofs`, second part: `ConversationsAreTurns` and `EachMessageIsNewOnce`,
  for every context policy. The invariant `ConvInv` says where the messages are:
  what a state keeps is made of returned turns, each of them ending in its answer
  or summary; what a call prepares is made of those and of its own open turn,
  which is no other call's; and the messages sent followed by those still new are
  what has to be told (`Told`). It rests on lemmas about what `selectFromEnd`
  keeps (`RetainedIsCount`) and about `FlattenSeq`.
- `MultiplexersProofs`: `QueuesKeepToLimit`, `NoRecoveryIsLost`,
  `WaitersMatchBacklog`, `EventsLeaveForTheReader` (the safety half of
  `EveryEventIsRead`) and that `Multiplexers` implements `OrderedBroadcast`.
  The inductive invariant `CoreInv` joins three things that none of the
  properties says: mutex and broadcasts agree (`Consistent`), a closed channel
  is empty and whoever listens to one has something to wait for (`Sound`), and
  list, channels and shutdown agree (`Lists`). The last is what makes the
  refinement true: under `OnlyKernel` a channel closes twice only once nothing
  is open any more, so nobody is taken off the list by mistake. `Limits` adds
  to each queue the broadcasts that are past the check. `WaitersMatchBacklog`
  needs to know what happens between a broadcast and its waiting (`Awaited`):
  only one broadcast is settled at a time, because it holds the mutex, and
  meanwhile every open channel of the list that has events has one more of them
  than sleepers. `EventsLeaveForTheReader` needs that a stream that has ended
  left its channel empty and no longer open (`Sound`). Every step turns a
  stream, unsubscribes channels, fans an event out or does none of these
  (`StepKinds`), which are `Deliver`, `Leave`, `Publish` and a stutter of the
  abstract broadcast. Types are proved too (`TypeOKHolds`).

Only model-checked: liveness, since fairness and ENABLED are outside the prover.
Every other property of the passing runs is stated by a theorem.

## Not modelled

Builders, factories, interfaces, the demo applications and the schemas keep no
state that changes after construction. Console output, naming and hash
computation are abstracted. `execute()` and `prompt()` of the system adapter
keep no state beyond their own promise; `once()` and `wait()` of the listeners
and `sleep(canceller)` of the deferrer have no caller in `src/`. Which
observation events an invocation emits and with which volatility, what is parsed
out of a response and how a prompt is put together are texts and shapes, not
state. `onShutdown` of the kernel is a list of callbacks run in turn. The scan
models bytes as widths, so a multi-byte character torn at a chunk border, which
the code decodes wrongly, is not in it. Child processes: `stdin` has no error
listener, and `gracefullyShutdown()` without arguments throws before it does
anything; neither is an action. The status of each part is in `PROJECT.json`
under `components`.

## Plan

The order is by how much else depends on a part.

| Step | Modules | Composes | Abstract specification | Theorems | State |
|---|---|---|---|---|---|
| 1 | `Mutex`, `MutexClients` | | `FifoLock` | exclusion, refinement | done |
| 2 | `LedgerFile`, `EventSequencer` | `Mutex` | | chain, persistence, numbering, call order | done |
| 3 | `EventChannel`, `MultiplexerCore`, `BlockingMultiplexer` | `Mutex` | `OrderedBroadcast` | | done |
| 4 | `FailFirstMultiplexer`, `ThrottleMultiplexer`, `Multiplexers` | core | `OrderedBroadcast` | | done |
| 5 | proofs about the multiplexers | | | limits, recovery, waiters, no event dropped, ordered broadcast | done |
| 6 | `Requests` | promise of a broadcast | | own answer, none missed, nothing left behind | done |
| 7 | `Kernel` | promise of a commit | state is the fold of the ledger | see 12 | done |
| 8 | `Coordination` | `WorkerChannel`, `Distribution` | | see 12 | done |
| 9 | `Agents` | `ContextPolicies`, `Handoff` | | limits, conversations, messages new once | done |
| 10 | `LedgerScan`, `FileHandle`, `LinkedList`, `EventListeners`, `ReactionPipeline` | | the tail of the file; a sequence; call order | file handle, pipeline, list, scan | done |
| 11 | `NodeProcess`, `NodeSystem` | | | output, timers, termination | done |
| 12 | proofs about kernel and coordination | | | state follows the ledger, derived events, depth; counts and permits, nothing lost, order of a key | done |
