----------------------------- MODULE FileHandle -----------------------------
(***************************************************************************)
(* The open file of the ledger: JsonlLedger with its handlePromise, and    *)
(* the write queue of NodeFileHandleAdapter, called concurrently and       *)
(* disposed of while calls are under way.  A handle is a record of         *)
(*     state    "none", "opening", "failed", "open", "closing", "closed",  *)
(*     callers  calls of appendEvent() that wait for the open,             *)
(*     queue    writeQueue,                                                *)
(*     batch    what flushQueue() took, with `done' of it written,         *)
(*     busy     an appendFile() is under way.                              *)
(***************************************************************************)
EXTENDS Naturals, Sequences, FiniteSets, SequencesExt

CONSTANTS
    Chunks,    \* the calls of appendEvent(), each with its line
    MaxOpens   \* bound on the number of handles

ASSUME FileAssumption == IsFiniteSet(Chunks) /\ MaxOpens \in Nat

VARIABLES
    cache,     \* handlePromise: the number of its handle, 0 when it is null
    handles,
    outcome,   \* of each call: "none", "pending", "resolved", "rejected"
    disposal,  \* of dispose(): "none", "waiting", "closing", "done"
    called,    \* history: the calls in their order
    file       \* the lines of the file

fileVars == <<cache, handles, outcome, disposal, called, file>>

NewHandle == [state |-> "none", callers |-> <<>>, queue |-> <<>>,
              batch |-> <<>>, done |-> 0, busy |-> FALSE]

FileInit ==
    /\ cache = 0 /\ disposal = "none"
    /\ handles = [h \in 1..MaxOpens |-> NewHandle]
    /\ outcome = [c \in Chunks |-> "none"]
    /\ called = <<>> /\ file = <<>>

Fresh == {h \in 1..MaxOpens : handles[h].state = "none"}
Settled(calls, how) ==
    [c \in Chunks |-> IF c \in Range(calls) THEN how ELSE outcome[c]]
-----------------------------------------------------------------------------
\* appendEvent() takes the cached handle, or opens the file.
AppendEvent(c) ==
    /\ outcome[c] = "none" /\ (cache # 0 \/ Fresh # {})
    /\ LET h == IF cache # 0 THEN cache ELSE CHOOSE fresh \in Fresh : TRUE
       IN  /\ cache' = h
           /\ handles' = [handles EXCEPT ![h].callers = Append(@, c),
                                         ![h].state = IF @ = "none" THEN "opening" ELSE @]
    /\ outcome' = [outcome EXCEPT ![c] = "pending"]
    /\ called' = Append(called, c)
    /\ UNCHANGED <<disposal, file>>

Opens(h) ==
    /\ handles[h].state = "opening"
    /\ handles' = [handles EXCEPT ![h].state = "open"]
    /\ UNCHANGED <<cache, outcome, disposal, called, file>>

\* open() rejects: the next call tries again; who waits for this one fails.
OpenFails(h) ==
    /\ handles[h].state = "opening"
    /\ handles' = [handles EXCEPT ![h].state = "failed", ![h].callers = <<>>]
    /\ cache' = 0
    /\ outcome' = Settled(handles[h].callers, "rejected")
    /\ disposal' = IF disposal = "waiting" THEN "done" ELSE disposal
    /\ UNCHANGED <<called, file>>

\* The head of the loop of flushQueue(): take the queue as the next batch and
\* start on it; an open handle accepts the write.
Taken(hd) == [hd EXCEPT !.batch = hd.queue, !.done = 0, !.queue = <<>>,
                        !.busy = hd.state = "open" /\ hd.queue # <<>>]

\* A call goes on once the file is open: it joins the queue, and starts to flush
\* it unless that is being done; with a handle closed meanwhile it fails.
Enter(h) ==
    /\ handles[h].callers # <<>> /\ handles[h].state \in {"open", "closing", "closed"}
    /\ LET c == Head(handles[h].callers)
           hd == [handles[h] EXCEPT !.callers = Tail(@)]
           queued == [hd EXCEPT !.queue = Append(@, c)]
       IN  IF hd.state = "closed"
           THEN /\ handles' = [handles EXCEPT ![h] = hd]
                /\ outcome' = [outcome EXCEPT ![c] = "rejected"]
           ELSE /\ handles' = [handles EXCEPT
                       ![h] = IF hd.batch = <<>> THEN Taken(queued) ELSE queued]
                /\ UNCHANGED outcome
    /\ UNCHANGED <<cache, disposal, called, file>>

\* appendFile() has written a chunk: the next one of the batch follows if the
\* handle is still open; at its end the whole batch resolves.
ChunkWritten(h) ==
    /\ handles[h].busy
    /\ LET hd == [handles[h] EXCEPT !.done = @ + 1]
       IN  /\ file' = Append(file, hd.batch[hd.done])
           /\ IF hd.done = Len(hd.batch)
              THEN outcome' = Settled(hd.batch, "resolved") /\ handles' = [handles EXCEPT ![h] = Taken(hd)]
              ELSE /\ handles' = [handles EXCEPT ![h] = [hd EXCEPT !.busy = hd.state = "open"]]
                   /\ UNCHANGED outcome
    /\ UNCHANGED <<cache, disposal, called>>

\* A failing write as it would be if it rejected the chunk it failed on only.
FailsAlone(h) ==
    /\ handles[h].batch # <<>>
    /\ outcome' = [outcome EXCEPT ![handles[h].batch[handles[h].done + 1]] = "rejected"]
    /\ handles' = [handles EXCEPT ![h] = Taken(@)]
    /\ UNCHANGED <<cache, disposal, called, file>>

\* appendFile() rejects, by an error of the system or because the handle was
\* closed: the whole batch rejects, what is written of it already included.
Fails(h) ==
    /\ handles[h].batch # <<>>
    /\ outcome' = Settled(handles[h].batch, "rejected")
    /\ handles' = [handles EXCEPT ![h] = Taken(@)]
    /\ UNCHANGED <<cache, disposal, called, file>>

\* dispose() as it would be if it forgot the handle before it is closed.
DisposeForgetting ==
    /\ disposal = "none" /\ cache # 0
    /\ disposal' = "waiting" /\ cache' = 0
    /\ UNCHANGED <<handles, outcome, called, file>>

\* dispose() waits for the cached handle; kernel.shutdown() calls it once.
Dispose ==
    /\ disposal = "none" /\ cache # 0
    /\ disposal' = "waiting"
    /\ UNCHANGED <<cache, handles, outcome, called, file>>

\* Its call of close(): a write under way is still completed.
Closes(h) ==
    /\ disposal = "waiting" /\ handles[h].state = "open"
    /\ disposal' = "closing"
    /\ handles' = [handles EXCEPT ![h].state = "closing"]
    /\ UNCHANGED <<cache, outcome, called, file>>

HandleClosed(h) ==
    /\ handles[h].state = "closing" /\ ~handles[h].busy
    /\ handles' = [handles EXCEPT ![h].state = "closed"]
    /\ UNCHANGED <<cache, outcome, disposal, called, file>>

\* The end of dispose().
Disposed ==
    /\ disposal = "closing" /\ \A h \in 1..MaxOpens : handles[h].state # "closing"
    /\ disposal' = "done" /\ cache' = 0
    /\ UNCHANGED <<handles, outcome, called, file>>

HandleStep(h) == Opens(h) \/ OpenFails(h) \/ Enter(h) \/ ChunkWritten(h) \/ Fails(h) \/ Closes(h) \/ HandleClosed(h)

FileNext ==
    \/ \E c \in Chunks : AppendEvent(c)
    \/ \E h \in 1..MaxOpens : HandleStep(h)
    \/ Dispose \/ Disposed

\* The system answers every call, and the program goes on with the answer.
FileFairness ==
    WF_fileVars(Disposed) /\ \A h \in 1..MaxOpens : WF_fileVars(HandleStep(h))

FileSpec == FileInit /\ [][FileNext]_fileVars /\ FileFairness
-----------------------------------------------------------------------------
\* The lines of the file are those of different calls, in the order of the
\* calls, over all batches, handles and failures, and a call resolves only when
\* its line is there.
AppendsKeepCallOrder ==
    /\ \A i, j \in 1..Len(file) : i < j =>
          \E k, l \in 1..Len(called) : k < l /\ called[k] = file[i] /\ called[l] = file[j]
    /\ \A c \in Chunks : outcome[c] = "resolved" => c \in Range(file)

\* Every call resolves or rejects, although dispose() takes the file away.
EveryAppendSettles ==
    \A c \in Chunks : outcome[c] = "pending" ~> outcome[c] \in {"resolved", "rejected"}
=============================================================================
