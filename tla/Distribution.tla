---------------------------- MODULE Distribution ----------------------------
(***************************************************************************)
(* The pure parts of the clusters: which worker an event goes to           *)
(* (core/coordination/distribution) and when the number of workers changes *)
(* (core/coordination/scaling).  `sizes' are the lengths of the workers'   *)
(* queues, in the order of the cluster's list.                             *)
(***************************************************************************)
EXTENDS Naturals, Sequences, FiniteSets

\* RoundRobinStrategy.select()
RoundRobin(counter, sizes) == (counter % Len(sizes)) + 1

\* PartitionByStrategy.select() on the hash of the event's key.
PartitionBy(hash, sizes) == (hash % Len(sizes)) + 1

\* LeastBusyStrategy.select(): the first of the shortest queues.
LeastBusy(sizes) ==
    CHOOSE i \in 1..Len(sizes) :
        \A j \in 1..Len(sizes) : sizes[i] <= sizes[j] /\ (sizes[i] = sizes[j] => i <= j)

\* collectMetrics(): a worker that holds its only event counts as idle.
BusyWorkers(sizes) == Cardinality({i \in 1..Len(sizes) : sizes[i] > 0})
IdleWorkers(sizes) == Len(sizes) - BusyWorkers(sizes)

\* QueueDepthScalingPolicy
QueueDepthUp(sizes) == IdleWorkers(sizes) = 0 /\ BusyWorkers(sizes) > 0
QueueDepthDown(sizes) == IdleWorkers(sizes) > 1

\* UtilizationScalingPolicy with its thresholds of 0.8 and 0.2.
UtilizationUp(sizes) == 10 * BusyWorkers(sizes) > 8 * Len(sizes)
UtilizationDown(sizes) == 10 * BusyWorkers(sizes) < 2 * Len(sizes)
=============================================================================
