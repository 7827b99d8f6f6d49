--------------------------- MODULE ReactionPipeline ---------------------------
(***************************************************************************)
(* A reaction as a processor: createReactionAdapter() and executePipeline()*)
(* over the steps that the reaction builder can put together.  A value is  *)
(* the position of the step that made it, 0 for the payload of the event.  *)
(* Transforms, validations, schemas and dispatches may each go wrong.      *)
(***************************************************************************)
EXTENDS Naturals, Sequences, FiniteSets, SequencesExt

CONSTANTS
    MaxSteps,   \* bound on the length of the pipeline
    MaxEvents   \* bound on the number of events

ASSUME ReactionAssumption == MaxSteps \in Nat /\ MaxEvents \in Nat

VARIABLES
    pipeline,   \* the steps, fixed when the reaction is built
    received,   \* number of events taken from the stream
    status,     \* "waiting" for an event, "running" the pipeline, or "dead"
    step,       \* i: position of the step that is next
    value,      \* lastInvokeResult
    emitted,    \* what the generator yielded, with the event that triggered it
    log         \* the steps that the current run executed, and how

reactionVars == <<pipeline, received, status, step, value, emitted, log>>

PipelineActions == {"invoke", "emit", "map", "assert", "error"}
StepOf(type, then) == [type |-> type, then |-> then]
Cases == {StepOf("case", a) : a \in PipelineActions}
Steps == {StepOf(a, "none") : a \in PipelineActions} \cup Cases

\* The pipelines that the builder makes: only the cursor that invoke() returns,
\* and case() itself, have a method case().
Pipelines ==
    {p \in SeqOf(Steps, MaxSteps) :
        \A i \in 1..Len(p) :
            p[i].type = "case" => i > 1 /\ p[i - 1].type \in {"invoke", "case"}}

\* A reaction that was just built, with the given steps.
ReactionInit(steps) ==
    /\ pipeline = steps
    /\ received = 0
    /\ status = "waiting"
    /\ step = 1 /\ value = 0
    /\ emitted = <<>> /\ log = <<>>

Positions == 1..Len(pipeline)
Handlers == {h \in Positions : pipeline[h].type = "error"}
-----------------------------------------------------------------------------
\* The start as it would be if the last result were kept between events.
TriggerKeepingResult ==
    /\ status = "waiting" /\ received < MaxEvents
    /\ received' = received + 1
    /\ status' = "running"
    /\ step' = 1 /\ log' = <<>>
    /\ UNCHANGED <<pipeline, emitted, value>>

\* The adapter starts the pipeline on an event that triggers it.
Trigger ==
    /\ status = "waiting" /\ received < MaxEvents
    /\ received' = received + 1
    /\ status' = "running"
    /\ step' = 1 /\ value' = 0 /\ log' = <<>>
    /\ UNCHANGED <<pipeline, emitted>>

\* Events of another type are passed over.
PassOver ==
    /\ status = "waiting" /\ received < MaxEvents
    /\ received' = received + 1
    /\ UNCHANGED <<pipeline, status, step, value, emitted, log>>

\* The step to be executed next, unless it only handles errors.
At(type) == status = "running" /\ step \in Positions /\ pipeline[step].type = type

\* The error steps are no part of the ordinary course.
SkipHandler ==
    /\ At("error")
    /\ step' = step + 1
    /\ UNCHANGED <<pipeline, received, status, value, emitted, log>>

\* The generator yields an event of the current step.
Yielded(kind) ==
    emitted' = Append(emitted, [event |-> received, at |-> step, kind |-> kind, from |-> value])

\* The observation events of a dispatch: none or one stands for any number.
Observed == UNCHANGED emitted \/ Yielded("observation")

\* The current step succeeds and leaves v as the last result.
Succeeds(v) ==
    /\ step' = step + 1
    /\ value' = v
    /\ log' = Append(log, [at |-> step, ok |-> TRUE])
    /\ UNCHANGED <<pipeline, received, status>>

Emit == At("emit") /\ Yielded("emit") /\ Succeeds(value)
Invoke == At("invoke") /\ Observed /\ Succeeds(step)
Transform == At("map") /\ Succeeds(step) /\ UNCHANGED emitted
Validate == At("assert") /\ Succeeds(value) /\ UNCHANGED emitted

\* case: a pipeline of its own for the one action, whose result and whose
\* errors end there; nothing happens when the schema does not match.
Branch ==
    /\ At("case")
    /\ \/ UNCHANGED emitted
       \/ pipeline[step].then = "emit" /\ Yielded("emit")
       \/ pipeline[step].then = "invoke" /\ Observed
    /\ Succeeds(value)

\* The search for a handler as it would be if it began with the first step.
HandlersForAny(i) == Handlers

\* The error steps that come after the failing one.
HandlersFor(i) == {h \in Handlers : h > i}

\* A step fails: its effects are left, and the next error step turns the error
\* into the result; without one the run is over.  The transform of an error
\* step runs in a catch block: what it throws ends the processor.
Fail ==
    /\ status = "running" /\ step \in Positions \ Handlers
    /\ IF HandlersFor(step) = {}
       THEN /\ log' = Append(log, [at |-> step, ok |-> FALSE])
            /\ status' = "waiting"
            /\ UNCHANGED <<step, value>>
       ELSE LET h == Min(HandlersFor(step))
            IN  \E ok \in BOOLEAN :
                  /\ log' = log \o <<[at |-> step, ok |-> FALSE], [at |-> h, ok |-> ok]>>
                  /\ step' = h + 1
                  /\ value' = IF ok THEN h ELSE value
                  /\ status' = IF ok THEN "running" ELSE "dead"
    /\ UNCHANGED <<pipeline, received, emitted>>

\* The pipeline came to its end.
Finish ==
    /\ status = "running" /\ step > Len(pipeline)
    /\ status' = "waiting"
    /\ UNCHANGED <<pipeline, received, step, value, emitted, log>>

Run ==
    \/ SkipHandler \/ Emit \/ Invoke \/ Transform \/ Validate
    \/ Branch \/ Fail \/ Finish

ReactionNext == Trigger \/ PassOver \/ Run

ReactionSpec == (\E steps \in Pipelines : ReactionInit(steps)) /\ [][ReactionNext]_reactionVars
-----------------------------------------------------------------------------
\* The positions that a run which stands after position p may go to next: after
\* a success the ordinary steps, after a failure the error steps.
Track(p, ok) == {q \in Positions : q > p /\ (q \in Handlers <=> ~ok)}

\* A run keeps to the track it is on: from each executed step it goes to the
\* next one of its track and leaves none out, it begins with the first
\* ordinary step, and it ends where its track ends.
RunsOnTwoTracks ==
    /\ \A k \in 1..Len(log) :
          LET from == IF k = 1 THEN 0 ELSE log[k - 1].at
              ok == k = 1 \/ log[k - 1].ok
          IN  log[k].at \in Track(from, ok) /\ \A q \in Track(from, ok) : log[k].at <= q
    /\ status = "waiting" /\ log # <<>> => Track(Last(log).at, Last(log).ok) = {}

\* Whether an executed step made a result.
Makes(steps, e) == e.ok /\ steps[e.at].type \in {"invoke", "map", "error"}
MadeBefore(steps, executed, p) ==
    {executed[i].at : i \in {j \in 1..Len(executed) :
                               Makes(steps, executed[j]) /\ executed[j].at < p}}

\* The result that a step of the current run works on: made by the latest step
\* before it that makes one and succeeded.
ResultAt(p) == Max({0} \cup MadeBefore(pipeline, log, p))

\* An emitted event carries the result that its own run had reached: nothing
\* of an earlier event, of a failed step or of a case leaks into it.
EventsCarryTheirResult ==
    \A i \in 1..Len(emitted) :
        emitted[i].event = received /\ log # <<>> /\ emitted[i].kind = "emit"
            => emitted[i].from = ResultAt(emitted[i].at)

\* The inductive invariant behind both: a run that is not over has executed every
\* ordinary step before the next one since it last went on, holds the result
\* that these steps make, and has emitted nothing from behind the next step.
ReactionTypeOK ==
    /\ pipeline \in Seq(Steps)
    /\ received \in Nat
    /\ status \in {"waiting", "running", "dead"}
    /\ step \in Nat \ {0}
    /\ value \in Nat
    /\ log \in Seq([at : Nat, ok : BOOLEAN])
    /\ emitted \in Seq([event : Nat, at : Nat, kind : {"emit", "observation"}, from : Nat])

RunsAhead ==
    status = "running" =>
        /\ log # <<>> => Last(log).ok
        /\ \A k \in 1..Len(log) : log[k].at < step
        /\ \A q \in Positions :
              (log # <<>> => Last(log).at < q) /\ q < step => q \in Handlers
        /\ value = ResultAt(step)

EmittedBehind ==
    \A i \in 1..Len(emitted) :
        /\ emitted[i].event <= received
        /\ emitted[i].event = received =>
              /\ status = "running" => emitted[i].at < step
              /\ emitted[i].kind = "emit" => emitted[i].from = ResultAt(emitted[i].at)

ReactionIndInv == ReactionTypeOK /\ RunsOnTwoTracks /\ RunsAhead /\ EmittedBehind
=============================================================================
