---------------------------- MODULE MCNodeSystem ----------------------------
(***************************************************************************)
(* Values for the constants of NodeSystem: a process whose output is read  *)
(* and that may fail, and one that runs on its own.                        *)
(***************************************************************************)
EXTENDS NodeSystem
CONSTANTS shell, server
TwoProcesses == {shell, server}
Shell == {shell}
OutputOfShell == [p \in Processes |-> IF p = shell THEN 2 ELSE 0]
ErrorsOfShell == [p \in Processes |-> IF p = shell THEN 1 ELSE 0]
=============================================================================
