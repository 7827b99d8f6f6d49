------------------------------- MODULE Agents -------------------------------
(***************************************************************************)
(* AgentDispatcher.invokeAndParse() for one agent, called by several       *)
(* reactions at the same time, with AgentLifecycleManager, the context     *)
(* policy, the handoff and invokeAgent() with its tool loop.               *)
(*                                                                         *)
(* An action is what one call runs between two awaits.  A message is       *)
(* [role, turn, n]: the turn it belongs to, and for "call" the number of   *)
(* tool calls, for "tool" which of them it answers.  Each counts one token.*)
(***************************************************************************)
EXTENDS ContextPolicies, Handoff, FiniteSets, SequencesExt

CONSTANTS
    Callers,            \* reactions that invoke the agent
    Policies,           \* the context policies it may be configured with
    MaxContextTokens, MaxFailures, MaxHallucinations, ScopeTurns, MaxRetries,
    HeadCount, TailCount,
    CallCounts,         \* bound: how many tools one response may call
    MaxRounds,          \* bound on the responses with tool calls in one turn
    MaxTurns,           \* bound on the turns
    MaxEvents,          \* bound on the events committed meanwhile
    MayFail             \* "compose", "invoke": what may be rejected

ASSUME AgentsAssumption ==
    /\ IsFiniteSet(Callers)
    /\ Policies \subseteq {"replace", "truncate", "summarize", "sliding-window"}
    /\ {MaxContextTokens, MaxFailures, MaxHallucinations, ScopeTurns} \subseteq Nat \ {0}
    /\ {MaxRetries, HeadCount, TailCount, MaxRounds, MaxTurns, MaxEvents} \subseteq Nat
    /\ CallCounts \subseteq Nat \ {0}

VARIABLES
    policy,     \* the agent's context policy
    lifecycle,  \* the state registered for the agent, 0 for none
    states,     \* every AgentLifecycleState created
    call,       \* the calls of invokeAndParse
    outcome,    \* of every turn started: "open", "returned" or "rejected"
    ledger,     \* events committed
    closing     \* terminateAll(): "no", "waiting" for a transport to close, "done"

vars == <<policy, lifecycle, states, call, outcome, ledger, closing>>

NewState == [conversation |-> <<>>, failures |-> 0, hallucinations |-> 0, turns |-> 0,
             records |-> <<>>, start |-> 0, handoff |-> <<>>]

\* at: where the call is; state: its AgentLifecycleState; reason: why the agent
\* is replaced; saved: what an await will deliver; turn, conv, from, attempt,
\* rounds, asserted, sent: the invocation.
Idle == [at |-> "idle", state |-> 0, reason |-> "", saved |-> <<>>, turn |-> 0, conv |-> <<>>,
         from |-> 0, attempt |-> 0, rounds |-> 0, asserted |-> 0, sent |-> <<>>]

Init ==
    /\ policy \in Policies
    /\ lifecycle = 0
    /\ states = <<>>
    /\ call = [c \in Callers |-> Idle]
    /\ outcome = <<>> /\ ledger = 0
    /\ closing = "no"

\* The state that call c works on.
State(c) == states[call[c].state]
Turns == Len(outcome)
At(c, place) == call[c].at = place
Goes(c, place) ==
    call' = [call EXCEPT ![c] = [@ EXCEPT !.at = place, !.reason = "", !.saved = <<>>]]
Ends(c, place) == call' = [call EXCEPT ![c] = [Idle EXCEPT !.at = place]]
-----------------------------------------------------------------------------
\* invokeAndParse() starts with getOrCreate(): a call that finds no state
\* composes the prompt first.
Invoke(c) ==
    /\ At(c, "idle") \/ At(c, "returned") \/ At(c, "rejected")
    /\ Turns < MaxTurns
    /\ call' = [call EXCEPT ![c] = [Idle EXCEPT !.at = IF lifecycle = 0 THEN "composing"
                                                                         ELSE "checking",
                                                !.state = lifecycle]]
    /\ UNCHANGED <<policy, lifecycle, states, outcome, ledger, closing>>

\* The state is created and registered, whatever was registered meanwhile.
Create(c) ==
    /\ At(c, "composing")
    /\ states' = Append(states, NewState)
    /\ lifecycle' = Len(states')
    /\ call' = [call EXCEPT ![c].at = "checking", ![c].state = Len(states')]
    /\ UNCHANGED <<policy, outcome, ledger, closing>>

\* The prompt or the handoff cannot be rendered, no transport is configured, or
\* the policy's promise rejects.
ComposeFails(c) ==
    /\ "compose" \in MayFail
    /\ call[c].at \in {"composing", "resetting", "rendering", "applying"}
    /\ Ends(c, "rejected")
    /\ UNCHANGED <<policy, lifecycle, states, outcome, ledger, closing>>

\* The limits as they would be if a turn more were allowed.
LateReason(s) ==
    IF s.failures > MaxFailures \/ s.hallucinations > MaxHallucinations THEN "failure"
    ELSE IF s.turns > ScopeTurns THEN "scope" ELSE "none"

\* Why enforceLimits() replaces the conversation of state s.
Reason(s) ==
    IF s.failures >= MaxFailures \/ s.hallucinations >= MaxHallucinations THEN "failure"
    ELSE IF s.turns >= ScopeTurns THEN "scope" ELSE "none"

\* enforceLimits() looks at the counters before its first await.
CheckLimits(c) ==
    LET reason == Reason(State(c))
    IN  /\ At(c, "checking")
        /\ call' = [call EXCEPT ![c].at = IF reason = "none" THEN "sizing" ELSE "resetting",
                                ![c].reason = reason]
        /\ UNCHANGED <<policy, lifecycle, states, outcome, ledger, closing>>

\* renderHandoff(): the windows of the events read from the ledger, with the
\* records the state has by now.
RenderHandoff(c) ==
    LET events == [i \in 1..ledger |-> i]
        failed == FailedSequences(State(c).records)
    IN  /\ At(c, "resetting")
        /\ call' = [call EXCEPT ![c].at = "rendering",
                       ![c].saved = HeadEvents(events, HeadCount, TailCount)
                            \o TailEvents(events, HeadCount, TailCount, call[c].reason, failed)]
        /\ UNCHANGED <<policy, lifecycle, states, outcome, ledger, closing>>

\* The rest of enforceLimits(): a new conversation, counters from zero.
Reset(c) ==
    /\ At(c, "rendering")
    /\ states' = [states EXCEPT ![call[c].state] = [NewState EXCEPT !.start = State(c).start,
                                                                    !.handoff = call[c].saved]]
    /\ Goes(c, "sizing")
    /\ UNCHANGED <<policy, lifecycle, outcome, ledger, closing>>

Summary == [role |-> "summary", turn |-> 0, n |-> 0]

\* What the configured policy makes of a conversation.
Applied(messages) ==
    LET weight == [i \in 1..Len(messages) |-> 1]
    IN  CASE policy = "replace" -> Replace
          [] policy = "truncate" -> Truncate(messages, weight, MaxContextTokens, 0)
          [] policy = "sliding-window" ->
                 SlidingWindow(messages, weight, MaxContextTokens, MaxContextTokens)
          [] policy = "summarize" ->
                 Summarize(messages, weight, MaxContextTokens, 0, Summary, ledger)

\* enforceContextPolicy(): a conversation below the limit is left alone.
Size(c) ==
    LET messages == State(c).conversation
    IN  /\ At(c, "sizing")
        /\ IF Len(messages) < MaxContextTokens
           THEN Goes(c, "starting")
           ELSE call' = [call EXCEPT ![c].at = "applying", ![c].saved = Applied(messages)]
        /\ UNCHANGED <<policy, lifecycle, states, outcome, ledger, closing>>

\* The policy's promise resolves: its conversation replaces the state's.
ApplyPolicy(c) ==
    /\ At(c, "applying")
    /\ states' = [states EXCEPT ![call[c].state].conversation = call[c].saved]
    /\ Goes(c, "starting")
    /\ UNCHANGED <<policy, lifecycle, outcome, ledger, closing>>
-----------------------------------------------------------------------------
\* lastKnownSequence of the dispatcher is never assigned.
LastKnownSequence == 0

Message(c, role, n) == [role |-> role, turn |-> call[c].turn, n |-> n]

\* The turn is counted and invokeAgent() called with the conversation as it is
\* now; the request carries the user message as new.
StartTurn(c) ==
    LET old == State(c).conversation
        user == [role |-> "user", turn |-> Turns + 1, n |-> 0]
    IN  /\ At(c, "starting") /\ Turns < MaxTurns
        /\ outcome' = Append(outcome, "open")
        /\ states' = [states EXCEPT ![call[c].state].turns = @ + 1,
                                    ![call[c].state].start = LastKnownSequence + 1]
        /\ call' = [call EXCEPT ![c] = [Idle EXCEPT !.at = "sending", !.state = call[c].state,
                        !.turn = Turns + 1, !.conv = Append(old, user), !.from = Len(old)]]
        /\ UNCHANGED <<policy, lifecycle, ledger, closing>>

\* The messages that the request of c marks as new.
NewMessages(c) == SubSeq(call[c].conv, call[c].from + 1, Len(call[c].conv))

\* The tool loop as it would be if the next request repeated this one's messages.
CallToolsRepeating(c, k) ==
    /\ At(c, "sending") /\ call[c].rounds < MaxRounds
    /\ call' = [call EXCEPT ![c].rounds = @ + 1,
                   ![c].sent = @ \o NewMessages(c),
                   ![c].conv = Append(@, Message(c, "call", k))
                                   \o [i \in 1..k |-> Message(c, "tool", i)]]
    /\ UNCHANGED <<policy, lifecycle, states, outcome, ledger, closing>>

\* The transport answers with k tool calls: the assistant's message and one
\* message per call follow, whether the tool is found, fails or succeeds, and
\* they are what the next request marks as new.
CallTools(c, k) ==
    /\ At(c, "sending") /\ call[c].rounds < MaxRounds
    /\ call' = [call EXCEPT ![c].rounds = @ + 1,
                   ![c].sent = @ \o NewMessages(c), ![c].from = Len(call[c].conv),
                   ![c].conv = Append(@, Message(c, "call", k))
                                   \o [i \in 1..k |-> Message(c, "tool", i)]]
    /\ UNCHANGED <<policy, lifecycle, states, outcome, ledger, closing>>

\* The transport answers without tool calls, and the output parses.
Answer(c) ==
    /\ At(c, "sending")
    /\ call' = [call EXCEPT ![c].at = "asserting",
                   ![c].sent = @ \o NewMessages(c),
                   ![c].conv = Append(@, Message(c, "answer", 0))]
    /\ UNCHANGED <<policy, lifecycle, states, outcome, ledger, closing>>

\* The record of the turn of c.
Record(c, failed) ==
    [number |-> State(c).turns, start |-> State(c).start, end |-> LastKnownSequence,
     failed |-> failed]

\* The conversation as it would be if a turn extended whatever is there now.
ExtendedNow(c) ==
    State(c).conversation \o SelectSeq(call[c].conv, LAMBDA m : m.turn = call[c].turn)

\* The conversation of a turn that succeeded: what it started from and its own.
Extended(c) == call[c].conv

\* The assertion holds: the conversation of the turn becomes the state's.
AssertPasses(c) ==
    /\ At(c, "asserting")
    /\ states' = [states EXCEPT ![call[c].state] =
                     [State(c) EXCEPT !.conversation = Extended(c),
                                      !.hallucinations = @ + call[c].asserted,
                                      !.records = Append(@, Record(c, FALSE))]]
    /\ Ends(c, "returned")
    /\ outcome' = [outcome EXCEPT ![call[c].turn] = "returned"]
    /\ UNCHANGED <<policy, lifecycle, ledger, closing>>

\* The catch block of invokeAndParse().
Failed(c, asserted) ==
    /\ outcome' = [outcome EXCEPT ![call[c].turn] = "rejected"]
    /\ states' = [states EXCEPT ![call[c].state] =
                     [State(c) EXCEPT !.failures = @ + 1, !.hallucinations = @ + asserted,
                                      !.records = Append(@, Record(c, TRUE))]]

\* The transport, a parse or the state's model fails: nothing is retried.
InvocationThrows(c) ==
    /\ "invoke" \in MayFail
    /\ At(c, "sending")
    /\ Failed(c, 0)
    /\ Ends(c, "rejected")
    /\ UNCHANGED <<policy, lifecycle, ledger, closing>>

\* The assertion fails: the model is told so, as long as retries are left.
AssertFails(c) ==
    /\ At(c, "asserting")
    /\ \/ /\ call[c].attempt < MaxRetries
          /\ call' = [call EXCEPT ![c].at = "sending", ![c].attempt = @ + 1,
                         ![c].asserted = @ + 1, ![c].from = Len(call[c].conv),
                         ![c].conv = Append(@, Message(c, "feedback", 0))]
          /\ UNCHANGED <<states, outcome>>
       \/ /\ call[c].attempt = MaxRetries
          /\ Failed(c, call[c].asserted + 1)
          /\ Ends(c, "rejected")
    /\ UNCHANGED <<policy, lifecycle, ledger, closing>>
-----------------------------------------------------------------------------
\* Somebody commits an event.
Commit ==
    /\ ledger < MaxEvents
    /\ ledger' = ledger + 1
    /\ UNCHANGED <<policy, lifecycle, states, call, outcome, closing>>

\* terminateAll(), which shutdown() of the kernel calls once, closes the
\* registered transport, if there is one ...
TerminateAll ==
    /\ lifecycle # 0 /\ closing = "no"
    /\ closing' = "waiting"
    /\ UNCHANGED <<policy, lifecycle, states, call, outcome, ledger>>

\* ... and then forgets every state; calls that have one keep it.
Terminated ==
    /\ closing = "waiting"
    /\ closing' = "done" /\ lifecycle' = 0
    /\ UNCHANGED <<policy, states, call, outcome, ledger>>

Exhausted ==
    /\ Turns = MaxTurns
    /\ UNCHANGED vars

Next ==
    \/ \E c \in Callers :
          \/ Invoke(c) \/ Create(c) \/ ComposeFails(c) \/ CheckLimits(c)
          \/ RenderHandoff(c) \/ Reset(c) \/ Size(c) \/ ApplyPolicy(c) \/ StartTurn(c)
          \/ (\E k \in CallCounts : CallTools(c, k))
          \/ Answer(c) \/ AssertPasses(c) \/ AssertFails(c) \/ InvocationThrows(c)
    \/ Commit \/ TerminateAll \/ Terminated \/ Exhausted

Spec == Init /\ [][Next]_vars
-----------------------------------------------------------------------------
\* Message b of a turn may come right after message a of it.
Continues(a, b) ==
    CASE b.role = "call" -> a.role \in {"user", "tool", "feedback"}
      [] b.role = "tool" -> IF b.n = 1 THEN a.role = "call" ELSE a.role = "tool" /\ a.n = b.n - 1
      [] b.role = "answer" -> a.role \in {"user", "tool", "feedback"}
      [] b.role = "feedback" -> a.role = "answer"
      [] OTHER -> FALSE

\* The calls that message i announces are answered right after it.
Answered(messages, i) ==
    messages[i].role = "call" =>
        \A k \in 1..messages[i].n :
            /\ i + k <= Len(messages)
            /\ messages[i + k] = [messages[i] EXCEPT !.role = "tool", !.n = k]

\* Message b may come right after message a: within a turn, or to begin the next.
Follows(a, b) ==
    IF a.turn = b.turn THEN Continues(a, b)
    ELSE a.turn < b.turn /\ a.role \in {"answer", "summary"} /\ b.role = "user"

\* The messages are those of some of the turns, perhaps after a summary.
MadeOf(messages, turns) ==
    /\ \A i \in 1..Len(messages) :
          /\ messages[i].role = "summary" => i = 1
          /\ messages[i].role # "summary" => messages[i].turn \in turns
          /\ Answered(messages, i)
    /\ \A i \in 2..Len(messages) : Follows(messages[i - 1], messages[i])

\* The last message has one of the roles.
EndsWith(messages, roles) == messages # <<>> => messages[Len(messages)].role \in roles

Returned == {t \in 1..Turns : outcome[t] = "returned"}

\* The conversation kept for an agent consists of whole turns in the order they
\* started, though calls interleave and one that ends last overwrites what the
\* others left: every tool call is answered, nothing of a turn that failed is
\* kept, and the last message is an answer.  Only the first turn may lack its
\* beginning, which a context policy dropped.
ConversationsAreTurns ==
    \A s \in 1..Len(states) :
        /\ MadeOf(states[s].conversation, Returned)
        /\ EndsWith(states[s].conversation, {"answer", "summary"})

\* What the model has to be told of turn t: all but its own answers.
ToTell(messages, t) ==
    FlattenSeq([i \in 1..Len(messages) |->
                   IF messages[i].turn = t /\ messages[i].role # "answer" THEN <<messages[i]>>
                   ELSE <<>>])

\* A transport that keeps its own session and forwards the new messages of each
\* request (newFromIndex) tells its model everything of a turn that the model
\* did not answer itself, once and in order, whatever mix of tool rounds and
\* retries the turn took, and nothing of other turns.
EachMessageIsNewOnce ==
    \A c \in Callers :
        call[c].at \in {"sending", "asserting"} =>
            LET requested == IF At(c, "sending") THEN call[c].sent \o NewMessages(c)
                                                 ELSE call[c].sent
            IN  requested = ToTell(call[c].conv, call[c].turn)

\* The limits are looked at before several awaits and the counters move after
\* them, so calls overshoot: but each of them by one turn at most, whatever they
\* interleave and however many of them reset the counters.
LimitsOvershootOncePerCaller ==
    \A s \in 1..Len(states) :
        /\ states[s].failures < MaxFailures + Cardinality(Callers)
        /\ states[s].turns < ScopeTurns + Cardinality(Callers)
=============================================================================
