--------------------------- MODULE MCCoordination ---------------------------
(***************************************************************************)
(* Values for the constants of Coordination: each kind of generator with   *)
(* the strategies and policies it can be given, two keys of which one is   *)
(* that of two events.                                                     *)
(***************************************************************************)
EXTENDS Coordination
Setups ==
    [kind : {"fixed"}, strategy : {"round-robin", "partition-by", "least-busy"},
     policy : {"queue-depth"}]
    \cup {[kind |-> "dynamic", strategy |-> "round-robin", policy |-> "utilization"],
          [kind |-> "dynamic", strategy |-> "least-busy", policy |-> "queue-depth"]}
    \cup [kind : {"concurrent"}, strategy : {"round-robin"}, policy : {"queue-depth"}]
Hashes == [e \in Events |-> IF e = 2 THEN 4 ELSE 7]
Failures == {"return", "throw", "select"}
=============================================================================
