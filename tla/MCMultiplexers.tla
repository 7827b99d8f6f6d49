--------------------------- MODULE MCMultiplexers ---------------------------
(***************************************************************************)
(* Values for the constants of Multiplexers: a processor that reads and    *)
(* yields, one that only reads, an observer and the cascading loop.        *)
(***************************************************************************)
EXTENDS Multiplexers
CONSTANTS worker, sink, observer, cascade
None == {}
Worker == {worker}
Sink == {sink}
WorkerAndSink == {worker, sink}
Observer == {observer}
Cascade == {cascade}
SubscribedInTurn == [r \in Readers |-> IF r = observer THEN 1 ELSE IF r = worker THEN 2 ELSE 3]
TwoProcessors == [cast : {{worker, sink}}, policy : {"blocking", "fail-first", "throttle"}]
WorkerBlocking == [cast : {{worker}}, policy : {"blocking"}]
ObservedBlocking == [cast : {{sink, observer}}, policy : {"blocking"}]
ProcessorsOrObserved == TwoProcessors \cup ObservedBlocking
Failures == {"commit", "throw"}
GracefulThenForced == {"graceful", "forced"}
EveryStop == {"graceful", "forced", "cancel"}
=============================================================================
