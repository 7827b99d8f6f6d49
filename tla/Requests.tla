------------------------------ MODULE Requests ------------------------------
(***************************************************************************)
(* RequestIntent and ResponseIntent in IntentProcessor.processIntent(): a  *)
(* request is broadcast under a fresh chainId while a commit listener and  *)
(* perhaps a timer wait for its response, and the processor sleeps on the  *)
(* promise that these settle.                                              *)
(*                                                                         *)
(* A broadcast is what the multiplexers make of it: it commits, reaches    *)
(* every inbox at once and returns some time later, or it fails.  A failed *)
(* loop shuts the kernel down; a rejected promise that nobody awaits ends  *)
(* the process.                                                            *)
(***************************************************************************)
EXTENDS Naturals, Sequences, FiniteSets

CONSTANTS
    Askers,       \* processors that yield requests
    Answerers,    \* processors that yield responses
    MaxRequests,  \* bound on the number of requests
    MaxEvents,    \* bound on the number of broadcasts
    Timed,        \* requests carry a timeout
    MayFail       \* commits may fail

ASSUME RequestBounds == MaxRequests \in Nat /\ MaxEvents \in Nat
ASSUME RequestFlags == Timed \in BOOLEAN /\ MayFail \in BOOLEAN

Processors == Askers \cup Answerers

VARIABLES
    log,       \* the committed requests and responses
    inbox,     \* the requests each answerer has not read
    held,      \* the chain of the request each answerer reads, or 0
    draft,     \* the event each processor broadcasts
    pc,        \* where each processor is
    chain,     \* the chainId of each asker's last request, or 0
    promise,   \* its promise: "none", "pending", "rejected" or "resolved"
    answer,    \* the place in the log that resolved it
    listening, \* askers whose commit listener is registered
    timer,     \* askers whose timer runs
    got,       \* the responses each asker was resumed with
    issued,    \* number of requests so far
    cancelled, \* the canceller's flag
    alive      \* the process lives

intent == <<chain, promise, answer, listening, timer>>
vars == <<log, inbox, held, draft, pc, intent, got, issued, cancelled, alive>>

NoEvent == [kind |-> "request", chain |-> 0, fits |-> FALSE]

\* Processors with a broadcast() under way, before and after its commit.
Sending == {p \in Processors : pc[p] = "sending"}

Init ==
    /\ log = <<>>
    /\ inbox = [q \in Answerers |-> <<>>]
    /\ held = [q \in Answerers |-> 0]
    /\ draft = [p \in Processors |-> NoEvent]
    /\ pc = [p \in Processors |-> "running"]
    /\ chain = [p \in Askers |-> 0]
    /\ promise = [p \in Askers |-> "none"]
    /\ answer = [p \in Askers |-> 0]
    /\ listening = {}
    /\ timer = {}
    /\ got = [p \in Askers |-> <<>>]
    /\ issued = 0
    /\ cancelled = FALSE
    /\ alive = TRUE

\* The generator of p yields an event, and its loop calls broadcast().
Broadcasts(p, event) ==
    /\ pc[p] = "running"
    /\ Len(log) + Cardinality(Sending) < MaxEvents
    /\ draft' = [draft EXCEPT ![p] = event]
    /\ pc' = [pc EXCEPT ![p] = "sending"]

\* The head of the processor loop: stop when cancelled.
Loop(p) ==
    /\ pc[p] = "looping"
    /\ pc' = [pc EXCEPT ![p] = IF cancelled THEN "done" ELSE "running"]
    /\ UNCHANGED <<log, inbox, held, draft, intent, got, issued, cancelled, alive>>

\* A request as it would be if the listener were not registered before the
\* broadcast.
AskListeningLate(p) ==
    /\ issued < MaxRequests
    /\ issued' = issued + 1
    /\ Broadcasts(p, [kind |-> "request", chain |-> issued', fits |-> FALSE])
    /\ chain' = [chain EXCEPT ![p] = issued']
    /\ promise' = [promise EXCEPT ![p] = "pending"]
    /\ timer' = IF Timed THEN timer \cup {p} ELSE timer
    /\ UNCHANGED <<log, inbox, held, answer, listening, got, cancelled, alive>>

\* RequestIntent: a fresh chain, the timer and the listener come first.
Ask(p) ==
    /\ issued < MaxRequests
    /\ issued' = issued + 1
    /\ Broadcasts(p, [kind |-> "request", chain |-> issued', fits |-> FALSE])
    /\ chain' = [chain EXCEPT ![p] = issued']
    /\ promise' = [promise EXCEPT ![p] = "pending"]
    /\ timer' = IF Timed THEN timer \cup {p} ELSE timer
    /\ listening' = listening \cup {p}
    /\ UNCHANGED <<log, inbox, held, answer, got, cancelled, alive>>

\* The generator of q takes the next event of its stream.
Read(q) ==
    /\ pc[q] = "running"
    /\ inbox[q] # <<>>
    /\ held' = [held EXCEPT ![q] = Head(inbox[q])]
    /\ inbox' = [inbox EXCEPT ![q] = Tail(@)]
    /\ UNCHANGED <<log, draft, pc, intent, got, issued, cancelled, alive>>

\* ResponseIntent: q answers the request it holds, with an event of the type
\* that the asker waits for or with another one, once or several times.
Answer(q, fits) ==
    /\ held[q] # 0
    /\ Broadcasts(q, [kind |-> "response", chain |-> held[q], fits |-> fits])
    /\ UNCHANGED <<log, inbox, held, intent, got, issued, cancelled, alive>>

\* The listeners as they would answer if they looked at the type only.
HearsAnyChain(p, event) == p \in listening /\ event.fits

\* The commit listener of p finds the response it waits for.
Hears(p, event) == p \in listening /\ event.fits /\ event.chain = chain[p]

\* The timers that still run as they would be if a response did not clear them.
TimersKept(answered) == timer

\* The timers that still run when the requests of these askers are answered.
TimersLeft(answered) == timer \ answered

\* sequencer.commit(): the event joins the log, the commit listeners run, and
\* the fan-out puts a request in every inbox.
Commit(p) ==
    LET answered == {r \in Askers : Hears(r, draft[p])}
    IN  /\ pc[p] = "sending"
        /\ log' = Append(log, draft[p])
        /\ inbox' = IF draft[p].kind # "request" \/ cancelled THEN inbox
                    ELSE [q \in Answerers |-> Append(inbox[q], draft[p].chain)]
        /\ promise' = [r \in Askers |-> IF r \in answered THEN "resolved" ELSE promise[r]]
        /\ answer' = [r \in Askers |-> IF r \in answered THEN Len(log') ELSE answer[r]]
        /\ listening' = listening \ answered
        /\ timer' = TimersLeft(answered)
        /\ pc' = [pc EXCEPT ![p] = "sent"]
        /\ UNCHANGED <<held, draft, chain, got, issued, cancelled, alive>>

\* broadcast() rejects; nobody takes the listener and the timer back.
CommitFails(p) ==
    /\ MayFail
    /\ pc[p] = "sending"
    /\ pc' = [pc EXCEPT ![p] = "failed"]
    /\ UNCHANGED <<log, inbox, held, draft, intent, got, issued, cancelled, alive>>

\* broadcast() returns: an answerer's loop goes on, an asker awaits its promise.
Return(p) ==
    /\ pc[p] = "sent"
    /\ pc' = [pc EXCEPT ![p] = IF draft[p].kind = "request" THEN "awaiting" ELSE "looping"]
    /\ UNCHANGED <<log, inbox, held, draft, intent, got, issued, cancelled, alive>>

\* The await of a settled promise ends.
Resume(p) ==
    /\ pc[p] = "awaiting"
    /\ \/ /\ promise[p] = "resolved"
          /\ got' = [got EXCEPT ![p] = Append(@, [chain |-> chain[p], at |-> answer[p]])]
          /\ pc' = [pc EXCEPT ![p] = "looping"]
       \/ /\ promise[p] = "rejected"
          /\ pc' = [pc EXCEPT ![p] = "failed"]
          /\ got' = got
    /\ UNCHANGED <<log, inbox, held, draft, intent, issued, cancelled, alive>>

\* The timer as it would be if it only stopped listening.
TimeoutForgets(p) ==
    /\ p \in timer
    /\ timer' = timer \ {p}
    /\ listening' = listening \ {p}
    /\ UNCHANGED <<log, inbox, held, draft, pc, chain, promise, answer, got, issued, cancelled, alive>>

\* The timer of p fires.  Unless p awaits the promise by now, the rejection
\* is unhandled and the process dies.
Timeout(p) ==
    /\ p \in timer
    /\ timer' = timer \ {p}
    /\ listening' = listening \ {p}
    /\ promise' = [promise EXCEPT ![p] = "rejected"]
    /\ alive' = (pc[p] = "awaiting")
    /\ UNCHANGED <<log, inbox, held, draft, pc, chain, answer, got, issued, cancelled>>

\* The error of p's loop reaches the kernel, which cancels and closes all channels.
Abort(p) ==
    /\ pc[p] = "failed"
    /\ pc' = [pc EXCEPT ![p] = "done"]
    /\ cancelled' = TRUE
    /\ inbox' = [q \in Answerers |-> <<>>]
    /\ UNCHANGED <<log, held, draft, intent, got, issued, alive>>

\* The generator of p returns: its stream ended, or it has had enough.
Finish(p) ==
    /\ pc[p] = "running"
    /\ pc' = [pc EXCEPT ![p] = "done"]
    /\ UNCHANGED <<log, inbox, held, draft, intent, got, issued, cancelled, alive>>

\* Nothing is left to do, or nobody is left to do it.
Over ==
    /\ ~alive \/ \A p \in Processors : pc[p] \in {"running", "done"} \/
                    (pc[p] = "awaiting" /\ promise[p] = "pending" /\ p \notin timer)
    /\ UNCHANGED vars

Progress(p) == alive /\ (Loop(p) \/ Commit(p) \/ CommitFails(p) \/ Return(p) \/ Abort(p))

Next ==
    \/ \E p \in Processors : Progress(p)
    \/ alive /\ \E p \in Processors : Finish(p)
    \/ alive /\ \E p \in Askers : Ask(p) \/ Resume(p) \/ Timeout(p)
    \/ alive /\ \E q \in Answerers : Read(q) \/ \E fits \in BOOLEAN : Answer(q, fits)
    \/ Over

Spec ==
    /\ Init /\ [][Next]_vars
    /\ \A p \in Processors : WF_vars(Progress(p))
    /\ \A p \in Askers : WF_vars(alive /\ Resume(p)) /\ WF_vars(alive /\ Timeout(p))
-----------------------------------------------------------------------------
\* The response of a request: the first fitting event of its chain.
AnswersAt(c, n) ==
    /\ log[n].fits /\ log[n].chain = c
    /\ \A i \in 1..n - 1 : ~(log[i].fits /\ log[i].chain = c)

\* An asker is resumed with the first response to its own request in commit
\* order, whoever else asks or answers at the same time.
ResumedWithOwnAnswer ==
    \A p \in Askers : \A i \in 1..Len(got[p]) : AnswersAt(got[p][i].chain, got[p][i].at)

\* A response that commits before broadcast() of its request has returned is
\* not missed: a request stays pending only while the log holds no response.
NoAnswerIsMissed ==
    \A p \in Askers : promise[p] = "pending" =>
        \A i \in 1..Len(log) : ~(log[i].fits /\ log[i].chain = chain[p])

\* A settled request leaves neither listener nor timer behind, so that nothing
\* of it can touch a later request of the same processor.
SettledIsCleared ==
    \A p \in Askers : promise[p] # "pending" => p \notin listening /\ p \notin timer

\* A request with a timeout comes to an end whatever the answerers, the
\* multiplexer and other requests do: its processor goes on or fails, or the
\* process dies of the rejection.
EveryRequestSettles ==
    \A p \in Askers :
        promise[p] = "pending" ~> pc[p] \in {"running", "done"} \/ ~alive
=============================================================================
