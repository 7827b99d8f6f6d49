-------------------------- MODULE MCEventSequencer --------------------------
(***************************************************************************)
(* Values for the constants of EventSequencer.                             *)
(***************************************************************************)
EXTENDS EventSequencer
CONSTANTS c1, c2, c3
TwoClients == {c1, c2}
ThreeClients == {c1, c2, c3}
NoFaults == {}
CleanFaults == {"clean"}
TornFaults == {"clean", "fragment"}
FragmentTail == {"fragment"}
UnterminatedTail == {"unterminated"}
=============================================================================
