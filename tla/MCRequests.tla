----------------------------- MODULE MCRequests -----------------------------
(***************************************************************************)
(* Values for the constants of Requests: two processors that request from  *)
(* each other and one that only answers.                                   *)
(***************************************************************************)
EXTENDS Requests
CONSTANTS p1, p2, p3
Peers == {p1, p2}
PeerAndServer == {p2, p3}
=============================================================================
