----------------------------- MODULE NodeSystem -----------------------------
(***************************************************************************)
(* NodeSystemAdapter with the processes it spawned, their readers and      *)
(* terminate().  The operating system delivers output, ends and errors;    *)
(* SIGTERM may be ignored, SIGKILL may not.                                *)
(***************************************************************************)
EXTENDS NodeProcess, FiniteSets, SequencesExt

CONSTANTS
    Processes,
    Read,       \* the processes whose output is read
    MaxOutput,  \* bounds on the chunks of output of each process,
    MaxErrors   \* and on the errors of it and its streams

ASSUME BoundsAssumption ==
    /\ IsFiniteSet(Processes) /\ Read \subseteq Processes
    /\ MaxOutput \in [Processes -> Nat] /\ MaxErrors \in [Processes -> Nat]

VARIABLES
    proc,       \* the processes; one that was not spawned yet is new
    active,     \* activeProcesses
    spawned,    \* history: the processes that spawn() returned
    baseToken,  \* baseCanceller
    ending      \* terminate(): its phase, what it found active and still waits for

vars == <<proc, active, spawned, baseToken, ending>>

\* The exit event of p, as the number that follows its output.
Exit(p) == MaxOutput[p] + 1

Init ==
    /\ proc = [p \in Processes |-> NewProcess]
    /\ active = {} /\ spawned = {}
    /\ baseToken = "live"
    /\ ending = [phase |-> "idle", called |-> {}, waits |-> {}, unheard |-> {}]

Becomes(p, pr) ==
    proc' = [proc EXCEPT ![p] = pr] /\ UNCHANGED <<active, spawned, baseToken, ending>>
-----------------------------------------------------------------------------
Spawn(p) ==
    /\ p \notin spawned
    /\ spawned' = spawned \cup {p} /\ active' = active \cup {p}
    /\ UNCHANGED <<proc, baseToken, ending>>

\* readStream() is called; it creates the child.
ReadStream(p) ==
    /\ p \in spawned \cap Read /\ proc[p].reader = "none"
    /\ Becomes(p, Turned(Started(proc[p])))

\* The loop over the stream goes on, by itself or woken.
ReadNext(p) ==
    /\ proc[p].reader \in {"busy", "ready"}
    /\ Becomes(p, Turned(proc[p]))

\* write() to a process that was not asked to end; it creates the child, and
\* its callback comes with or without an error.
Write(p) ==
    /\ p \in spawned \cap Read
    /\ ~proc[p].requested /\ ~proc[p].terminated /\ ~proc[p].writing
    /\ Becomes(p, [Started(proc[p]) EXCEPT !.writing = TRUE])
Written(p) == proc[p].writing /\ Becomes(p, [proc[p] EXCEPT !.writing = FALSE])

\* gracefullyShutdown() and kill() called by the owner.
GracefullyShutdown(p, drain) ==
    p \in spawned /\ ~proc[p].requested /\ Becomes(p, Shutdown(proc[p], drain))
Kill(p, drain) ==
    p \in spawned /\ ~proc[p].requested /\ Becomes(p, Killed(proc[p], drain))

\* The canceller that was given to spawn() is cancelled; what it calls was
\* disposed of when the process terminated.
Cancel(p, force) ==
    /\ p \in active /\ proc[p].token = "live"
    /\ Becomes(p, Cancelled(proc[p], force))

\* The timer of gracefullyShutdown() fires.
Timeout(p) ==
    /\ proc[p].timer
    /\ Becomes(p, [Signalled(proc[p], "KILL") EXCEPT !.timer = FALSE])

Data(p) ==
    /\ proc[p].os \in {"alive", "exited"} /\ proc[p].arrived < MaxOutput[p]
    /\ Becomes(p, Pushed(proc[p]))

\* The child fails to start or one of its streams breaks.
StreamError(p) ==
    /\ proc[p].os \in {"alive", "exited"} /\ proc[p].errors < MaxErrors[p]
    /\ \E fatal \in BOOLEAN :
         Becomes(p, [Failed(proc[p]) EXCEPT !.os = IF fatal THEN "exited" ELSE @])

\* The child ends, by itself or by a signal.
Ends(p) ==
    /\ proc[p].os = "alive"
    /\ Becomes(p, [proc[p] EXCEPT !.os = "exited"])

\* Its streams are at their end; the adapter and terminate() are told.
Close(p) ==
    /\ proc[p].os = "exited"
    /\ proc' = [proc EXCEPT ![p] = Closed(@, Exit(p))]
    /\ active' = active \ {p}
    /\ ending' = [ending EXCEPT !.waits = @ \ {p}]
    /\ UNCHANGED <<spawned, baseToken>>

\* The processes that do not hear of terminate(): one that was not created
\* yet, and one whose token was cancelled before it was created.
Unheard == {p \in active : proc[p].os = "none" \/ (proc[p].token = "cancelled" /\ ~proc[p].requested)}

\* terminate({ force }) as it would be if it did not wait for anybody.
TerminateOnly(force) ==
    /\ ending.phase = "idle"
    /\ ending' = [phase |-> "waiting", called |-> active, waits |-> {}, unheard |-> Unheard]
    /\ baseToken' = "cancelled"
    /\ proc' = [p \in Processes |-> IF p \in active THEN Cancelled(proc[p], force) ELSE proc[p]]
    /\ UNCHANGED <<active, spawned>>

\* terminate({ force }): cancel what is active and wait for it.
Terminate(force) ==
    /\ ending.phase = "idle"
    /\ ending' = [phase |-> "waiting", called |-> active, waits |-> active, unheard |-> Unheard]
    /\ baseToken' = "cancelled"
    /\ proc' = [p \in Processes |-> IF p \in active THEN Cancelled(proc[p], force) ELSE proc[p]]
    /\ UNCHANGED <<active, spawned>>

TerminateReturns ==
    /\ ending.phase = "waiting" /\ ending.waits = {}
    /\ ending' = [ending EXCEPT !.phase = "returned"]
    /\ UNCHANGED <<proc, active, spawned, baseToken>>

\* Everything that was spawned is closed and read.
Over ==
    /\ \A p \in Processes : proc[p].os \in {"none", "closed"} /\ proc[p].reader \in {"none", "ended", "threw"}
    /\ UNCHANGED vars

Next ==
    \/ \E p \in Processes :
          \/ Spawn(p) \/ ReadStream(p) \/ ReadNext(p) \/ Write(p) \/ Written(p) \/ Timeout(p)
          \/ Data(p) \/ StreamError(p) \/ Ends(p) \/ Close(p)
          \/ \E b \in BOOLEAN : GracefullyShutdown(p, b) \/ Kill(p, b) \/ Cancel(p, b)
    \/ \E force \in BOOLEAN : Terminate(force)
    \/ TerminateReturns
    \/ Over

\* Readers read on, timers fire, SIGKILL kills and ended children close.
Fairness ==
    /\ WF_vars(TerminateReturns)
    /\ \A p \in Processes :
          /\ WF_vars(ReadNext(p)) /\ WF_vars(Timeout(p)) /\ WF_vars(Close(p))
          /\ WF_vars(proc[p].signal = "KILL" /\ Ends(p))

Spec == Init /\ [][Next]_vars /\ Fairness
-----------------------------------------------------------------------------
ProcessRecord(p) ==
    [os : {"none", "alive", "exited", "closed"}, signal : {"none", "TERM", "KILL"},
     queue : Seq(1..Exit(p)), reader : {"none", "busy", "asleep", "ready", "ended", "threw"},
     requested : BOOLEAN, terminated : BOOLEAN, errors : 0..MaxErrors[p], timer : BOOLEAN,
     writing : BOOLEAN, listening : BOOLEAN, token : {"live", "cancelled"},
     arrived : 0..MaxOutput[p], cut : 0..MaxOutput[p], got : Seq(1..Exit(p))]

TypeOK ==
    /\ DOMAIN proc = Processes /\ \A p \in Processes : proc[p] \in ProcessRecord(p)
    /\ active \subseteq spawned /\ spawned \subseteq Processes
    /\ baseToken \in {"live", "cancelled"}
    /\ ending \in [phase : {"idle", "waiting", "returned"}, called : SUBSET Processes,
                   waits : SUBSET Processes, unheard : SUBSET Processes]

\* Output is read in the order in which it came, and what was not discarded by
\* a request without drain, with the exit event at its end, is neither lost nor
\* read twice.
OutputIsKept ==
    \A p \in Processes :
        LET all == proc[p].got \o proc[p].queue
            due == {n \in 1..proc[p].arrived : n > proc[p].cut}
                   \cup (IF proc[p].terminated THEN {Exit(p)} ELSE {})
        IN  /\ \A i, j \in 1..Len(all) : i < j => all[i] < all[j]
            /\ due \subseteq Range(all)

\* The shutdown timer runs only for a process that has not closed: SIGKILL is
\* never sent to a process id that may belong to somebody else by now.
TimerRunsWhileAlive ==
    \A p \in Processes :
        proc[p].timer => proc[p].requested /\ proc[p].os \in {"alive", "exited"}

\* When terminate() returns, everything that was active at its call is closed,
\* whoever asked it to end and whatever was spawned meanwhile.
TerminateWaitsForAll ==
    ending.phase = "returned" => \A p \in ending.called : proc[p].os = "closed"

\* A process that was asked to end, or that failed, closes in the end whatever
\* it does with SIGTERM, its stream ends, and a call of terminate() that every
\* active process heard returns.
TerminationCompletes ==
    /\ \A p \in Processes :
          (proc[p].requested \/ proc[p].errors > 0) ~>
              (proc[p].os = "closed" /\ proc[p].reader \in {"none", "ended", "threw"})
    /\ (ending.phase = "waiting" /\ ending.unheard = {}) ~> ending.phase = "returned"
=============================================================================
