-------------------------- MODULE MCStandaloneParts --------------------------
(***************************************************************************)
(* Values for the constants of StandaloneParts.                            *)
(***************************************************************************)
EXTENDS StandaloneParts
FourCallers == {"worker", "sink", "cascade", "runner"}
ThreeCalls == {"first", "second", "third"}
FourTokens == 1..4
=============================================================================
