--------------------------- MODULE StandaloneParts ---------------------------
(***************************************************************************)
(* The parts of the system that run on their own: the callers of a mutex,  *)
(* a reaction's pipeline, the scans of the ledger file, its open handle,   *)
(* and a listener on its linked list.  One of them runs, the others rest.  *)
(***************************************************************************)
EXTENDS MutexClients, ReactionPipeline, LedgerScan, EventListeners, FileHandle

VARIABLE part   \* the one that runs

Parts == {"mutex", "reaction", "scan", "listener", "file"}

Init ==
    /\ part \in Parts
    /\ IF part = "reaction" THEN \E steps \in Pipelines : ReactionInit(steps)
                            ELSE ReactionInit(<<>>)
    /\ IF part = "scan" THEN AnyScanInit ELSE ScanInit(<<>>, "newline", "whole", "last", 0, 2)
    /\ LockInit /\ ListInit /\ FileInit

Next ==
    /\ UNCHANGED part
    /\ \/ part = "mutex" /\ LockNext /\ UNCHANGED <<reactionVars, scanVars, listVars, fileVars>>
       \/ part = "reaction" /\ ReactionNext /\ UNCHANGED <<lockVars, scanVars, listVars, fileVars>>
       \/ part = "scan" /\ ScanNext /\ UNCHANGED <<lockVars, reactionVars, listVars, fileVars>>
       \/ part = "listener" /\ ListNext /\ UNCHANGED <<lockVars, reactionVars, scanVars, fileVars>>
       \/ part = "file" /\ FileNext /\ UNCHANGED <<lockVars, reactionVars, scanVars, listVars>>

Spec ==
    /\ Init /\ [][Next]_<<part, lockVars, reactionVars, scanVars, listVars, fileVars>>
    /\ LockFairness /\ FileFairness
=============================================================================
