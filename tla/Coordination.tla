---------------------------- MODULE Coordination ----------------------------
(***************************************************************************)
(* The generators that spread one stream of events over several workers:   *)
(* createFixedCluster, createDynamicCluster and createConcurrentProcessor. *)
(* All have a distributor that reads the events, workers that push what    *)
(* they yield into one output channel, and a reader that yields from it    *)
(* and waits for the others at the end.  A worker of a cluster runs a      *)
(* processor over a channel of its own; a worker of the concurrent         *)
(* processor is the task of one event, admitted by a semaphore.            *)
(***************************************************************************)
EXTENDS WorkerChannel, Distribution

CONSTANTS
    Plans,           \* [kind, strategy, policy]: what may be set up
    Size,            \* workers of a fixed cluster
    MinWorkers, MaxWorkers,
    MaxConcurrency,
    Hash,            \* the hash of each event's key
    MaxEvents,       \* bound on the events of the input
    MaxSpawned,      \* bound on the workers ever started
    MayFail          \* "return" early, "throw", "select": what user code may do

Events == 1..MaxEvents
Workers == 1..MaxSpawned

ASSUME PlansAssumption ==
    Plans \subseteq [kind : {"fixed", "dynamic", "concurrent"},
                     strategy : {"round-robin", "partition-by", "least-busy"},
                     policy : {"queue-depth", "utilization"}]
ASSUME BoundsAssumption ==
    /\ Size \in Nat \ {0} /\ MinWorkers \in Nat \ {0} /\ MaxWorkers \in Nat
    /\ MaxConcurrency \in Nat \ {0} /\ MaxEvents \in Nat /\ MaxSpawned \in Nat
    /\ MinWorkers <= MaxWorkers /\ Size <= MaxSpawned /\ MinWorkers <= MaxSpawned
    /\ Hash \in [Events -> Nat]

VARIABLES
    plan,         \* what was set up
    inputs,       \* workerInputs: the workers that get events
    workers,      \* every worker with its input channel
    output,       \* the output channel; its reader is the generator itself
    distributor,  \* where it is, the number of events read, permits left
    monitor,      \* the loop that scales: "sleeping", "done"
    control       \* activeWorkers, firstError, distributionEnded

vars == <<plan, inputs, workers, output, distributor, monitor, control>>

Kind(k) == plan.kind = k
Clustered == ~Kind("concurrent")

\* The workers started at the beginning.
FirstWorkers(kind) == CASE kind = "fixed" -> Size [] kind = "dynamic" -> MinWorkers
                        [] kind = "concurrent" -> 0

Init ==
    /\ plan \in Plans
    /\ inputs = [i \in 1..FirstWorkers(plan.kind) |-> i]
    /\ workers = [w \in Workers |->
                     NewChannel(IF w <= FirstWorkers(plan.kind) THEN "running" ELSE "absent")]
    /\ output = NewChannel("asleep")
    /\ distributor = [at |-> "waiting", read |-> 0, permits |-> MaxConcurrency]
    /\ monitor = IF Kind("dynamic") THEN "sleeping" ELSE "done"
    /\ control = [active |-> FirstWorkers(plan.kind), error |-> FALSE, ended |-> FALSE]

\* Workers that were started: the next one is the first that was not.
Spawned == {w \in Workers : workers[w].at # "absent"}
Fresh == CHOOSE w \in Workers \ Spawned : \A v \in Workers \ Spawned : w <= v

Active == {w \in Workers : workers[w].at \notin {"absent", "done", "quit", "threw"}}

Sizes == [i \in 1..Len(inputs) |-> Len(workers[inputs[i]].queue)]

\* The inputs of the list closed, on behalf of the state ws of the workers.
InputsClosed(ws) ==
    [w \in Workers |-> IF \E i \in 1..Len(inputs) : inputs[i] = w THEN Close(ws[w]) ELSE ws[w]]
-----------------------------------------------------------------------------
\* The distributor leaves its loop: the inputs are closed, and the output when
\* no worker is left to do it.  In a fixed cluster the last worker does.
Ends(d) ==
    /\ distributor' = [d EXCEPT !.at = "done"]
    /\ control' = [control EXCEPT !.ended = TRUE]
    /\ workers' = InputsClosed(workers)
    /\ output' = IF control.active = 0 /\ ~Kind("fixed") THEN Close(output) ELSE output
    /\ UNCHANGED <<plan, inputs, monitor>>

InputEnds == distributor.at = "waiting" /\ Ends(distributor)

\* The index that the strategy selects for event e.
Select(e) ==
    CASE plan.strategy = "round-robin" -> RoundRobin(e - 1, Sizes)
      [] plan.strategy = "partition-by" -> PartitionBy(Hash[e], Sizes)
      [] plan.strategy = "least-busy" -> LeastBusy(Sizes)

\* The next event arrives: the loop is left if the output is closed, else the
\* event is pushed to a worker, or its task asks for a permit.
Distribute ==
    LET e == distributor.read + 1
        d == [distributor EXCEPT !.read = e]
    IN  /\ distributor.at = "waiting" /\ e \in Events
        /\ \/ output.closed /\ Ends(d)
           \/ /\ ~output.closed /\ Clustered
              /\ workers' = [workers EXCEPT ![inputs[Select(e)]] = Push(@, e)]
              /\ distributor' = d
              /\ UNCHANGED <<plan, inputs, output, monitor, control>>
           \/ /\ ~output.closed /\ ~Clustered
              /\ distributor' = [d EXCEPT !.at = "acquiring"]
              /\ UNCHANGED <<plan, inputs, workers, output, monitor, control>>

\* The key function of a partition, or a filter, throws: the distributor is
\* rejected and closes nothing.
SelectThrows ==
    /\ "select" \in MayFail
    /\ distributor.at = "waiting" /\ distributor.read < MaxEvents
    /\ ~output.closed
    /\ distributor' = [distributor EXCEPT !.at = "failed"]
    /\ UNCHANGED <<plan, inputs, workers, output, monitor, control>>

\* The task of the event that was read starts, with a permit.
StartTask ==
    /\ distributor.at = "acquiring" /\ distributor.permits > 0
    /\ Spawned # Workers
    /\ workers' = [workers EXCEPT ![Fresh] =
                      [NewChannel("holding") EXCEPT !.got = <<distributor.read>>]]
    /\ distributor' = [distributor EXCEPT !.at = "waiting", !.permits = @ - 1]
    /\ control' = [control EXCEPT !.active = @ + 1]
    /\ UNCHANGED <<plan, inputs, output, monitor>>

\* Semaphore.acquire(): asleep without a permit.  With one, the permit is given
\* back if the output was closed meanwhile, else the task of the event starts.
Acquire ==
    /\ distributor.at = "acquiring"
    /\ \/ /\ distributor.permits = 0
          /\ distributor' = [distributor EXCEPT !.at = "asleep"]
          /\ UNCHANGED <<plan, inputs, workers, output, monitor, control>>
       \/ distributor.permits > 0 /\ output.closed /\ Ends(distributor)
       \/ ~output.closed /\ StartTask

\* Semaphore.release() as it would be if it woke nobody.
ReleasedSilently == [distributor EXCEPT !.permits = @ + 1]

\* Semaphore.release()
Released ==
    [distributor EXCEPT !.permits = @ + 1,
                        !.at = IF @ = "asleep" THEN "acquiring" ELSE @]
-----------------------------------------------------------------------------
\* The processor of a worker asks for its next event.
WorkerPulls(w) ==
    /\ Clustered
    /\ workers[w].at \in {"running", "holding"}
    /\ workers' = [workers EXCEPT ![w] = Pull(@)]
    /\ UNCHANGED <<plan, inputs, output, distributor, monitor, control>>

\* A worker yields in answer to the event it holds and forward() pushes it; a
\* task may emit as long as the output is open.
WorkerYields(w) ==
    LET item == workers[w].got[Len(workers[w].got)]
    IN  /\ workers[w].at = "holding"
        /\ workers' = [workers EXCEPT ![w].at = "running"]
        /\ output' = IF Clustered \/ ~output.closed THEN Push(output, item) ELSE output
        /\ UNCHANGED <<plan, inputs, distributor, monitor, control>>

\* onWorkerDone as it would be if a dynamic cluster did not wait for the distributor.
LastOfAll == control.active = 1

\* The worker that ends is the last: no other runs, and in all but a fixed
\* cluster no other will be started.
LastWorker == control.active = 1 /\ (control.ended \/ Kind("fixed"))

\* A worker ends, onWorkerDone; when it threw, onWorkerError before that.
Finishes(w, how) ==
    LET left == [workers EXCEPT ![w].at = how]
    IN  /\ workers' = IF how = "threw" THEN InputsClosed(left) ELSE left
        /\ output' = IF how = "threw" \/ LastWorker THEN Close(output) ELSE output
        /\ control' = [control EXCEPT !.active = @ - 1, !.error = @ \/ how = "threw"]
        /\ distributor' = IF Clustered THEN distributor ELSE Released
        /\ UNCHANGED <<plan, inputs, monitor>>

\* A processor returns at the end of its stream, a task when it is through.
WorkerReturns(w) ==
    /\ \/ workers[w].at = "ending"
       \/ ~Clustered /\ workers[w].at \in {"running", "holding"}
    /\ Finishes(w, "done")

\* A processor returns before the end of its stream: nobody reads its input
\* any more, and the distributor does not know.
WorkerQuits(w) ==
    /\ "return" \in MayFail
    /\ Clustered /\ workers[w].at \in {"running", "holding"}
    /\ Finishes(w, "quit")

WorkerThrows(w) ==
    /\ "throw" \in MayFail
    /\ workers[w].at \in {"running", "holding", "ending"}
    /\ Finishes(w, "threw")
-----------------------------------------------------------------------------
ShouldScaleUp == IF plan.policy = "queue-depth" THEN QueueDepthUp(Sizes) ELSE UtilizationUp(Sizes)
ShouldScaleDown ==
    IF plan.policy = "queue-depth" THEN QueueDepthDown(Sizes) ELSE UtilizationDown(Sizes)

\* addWorker()
AddWorker ==
    /\ Spawned # Workers
    /\ inputs' = Append(inputs, Fresh)
    /\ workers' = [workers EXCEPT ![Fresh].at = "running"]
    /\ control' = [control EXCEPT !.active = @ + 1]
    /\ UNCHANGED monitor

\* removeIdleWorker(): the first worker with an empty queue.
RemoveIdleWorker ==
    \E i \in 1..Len(inputs) :
        /\ Sizes[i] = 0 /\ \A j \in 1..(i - 1) : Sizes[j] > 0
        /\ inputs' = SubSeq(inputs, 1, i - 1) \o SubSeq(inputs, i + 1, Len(inputs))
        /\ workers' = [workers EXCEPT ![inputs[i]] = Close(@)]
        /\ UNCHANGED <<control, monitor>>

\* The monitor wakes up: it leaves when the output is closed or the input has
\* ended, else it scales; a cool-down skips the turn.
Tick ==
    /\ monitor = "sleeping"
    /\ \/ /\ output.closed \/ control.ended
          /\ monitor' = "done"
          /\ UNCHANGED <<inputs, workers, control>>
       \/ /\ ~output.closed /\ ~control.ended
          /\ \/ Len(inputs) < MaxWorkers /\ ShouldScaleUp /\ AddWorker
             \/ Len(inputs) > MinWorkers /\ ~(Len(inputs) < MaxWorkers /\ ShouldScaleUp)
                /\ ShouldScaleDown /\ RemoveIdleWorker
    /\ UNCHANGED <<plan, output, distributor>>
-----------------------------------------------------------------------------
\* The consumer of the generator asks for its next event.
ReaderPulls ==
    /\ output.at \in {"running", "holding"}
    /\ output' = Pull(output)
    /\ UNCHANGED <<plan, inputs, workers, distributor, monitor, control>>

\* Promise.allSettled: the distributor, and the workers of a fixed cluster, the
\* monitor of a dynamic one, the tasks of a concurrent processor.
AllSettled ==
    /\ distributor.at \in {"done", "failed"}
    /\ Kind("dynamic") \/ Active = {}
    /\ monitor = "done"

\* The generator ends, with the first error if there was one.
Settle ==
    /\ output.at = "ending" /\ AllSettled
    /\ output' = [output EXCEPT !.at = IF control.error THEN "threw" ELSE "returned"]
    /\ UNCHANGED <<plan, inputs, workers, distributor, monitor, control>>

\* Nothing is left to do, or the distributor was rejected and nobody is closed.
Finished ==
    /\ output.at \in {"returned", "threw"} \/ distributor.at = "failed"
    /\ UNCHANGED vars

Next ==
    \/ Distribute \/ InputEnds \/ SelectThrows \/ Acquire \/ Tick
    \/ \E w \in Workers : WorkerPulls(w) \/ WorkerYields(w) \/ WorkerReturns(w)
                          \/ WorkerQuits(w) \/ WorkerThrows(w)
    \/ ReaderPulls \/ Settle \/ Finished

\* Continuations run and timers fire; a processor that is not at the end of its
\* stream reads on, and returns at its end, as a task does; the kernel reads on.
Spec ==
    /\ Init /\ [][Next]_vars
    /\ WF_vars(Acquire) /\ WF_vars(Tick) /\ WF_vars(ReaderPulls) /\ WF_vars(Settle)
    /\ \A w \in Workers : WF_vars(WorkerReturns(w)) /\ WF_vars(WorkerPulls(w))
-----------------------------------------------------------------------------
Terminated == output.at \in {"returned", "threw"}

\* The counts agree with the workers: activeWorkers is the number that run,
\* every permit is free or with a task, and the output is open exactly as long
\* as somebody may still push to it and nothing failed.
Accounted ==
    /\ control.active = Cardinality(Active)
    /\ ~Clustered => distributor.permits + control.active = MaxConcurrency
    /\ output.closed <=>
          \/ control.error
          \/ Active = {} /\ (control.ended \/ Kind("fixed"))

\* A generator that returns without an error leaves nothing behind: all that
\* was pushed to its output was yielded, and whatever was distributed was read,
\* also by a worker that was removed meanwhile; only a processor that returned
\* before the end of its stream leaves events unread.
NothingLost ==
    output.at = "returned" =>
        /\ output.queue = <<>>
        /\ \A w \in Spawned : workers[w].queue # <<>> => workers[w].at = "quit"

\* Every event is given to one worker, once, and a worker gets its events in
\* the order of the input.  In a partitioned cluster of fixed size an event
\* comes after all earlier ones with its key, at the same worker.
KeysInOrder ==
    LET got(w) == workers[w].got
        Has(w, e) == \E i \in 1..Len(got(w)) : got(w)[i] = e
    IN  /\ \A w \in Workers : \A i, j \in 1..Len(got(w)) : i < j => got(w)[i] < got(w)[j]
        /\ \A v, w \in Workers, e \in Events : Has(v, e) /\ Has(w, e) => v = w
        /\ Kind("fixed") /\ plan.strategy = "partition-by" =>
              \A w \in Workers, e, f \in Events :
                  Has(w, f) /\ e < f /\ Hash[e] = Hash[f] => Has(w, e)

\* An input that ends, or moves after a worker threw, ends the generator
\* whatever the workers do; a distributor that waits for a permit gets one.
GeneratorEnds ==
    /\ distributor.at = "asleep" ~> distributor.at # "asleep"
    /\ distributor.at = "done" ~> Terminated
=============================================================================
