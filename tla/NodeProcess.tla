----------------------------- MODULE NodeProcess -----------------------------
(***************************************************************************)
(* A child process behind NodeProcessAdapter, as operators on a record     *)
(*     os          "none" before the first use, "alive", "exited" while the*)
(*                 streams drain, "closed",                                *)
(*     signal      the strongest signal sent: "none", "TERM", "KILL",      *)
(*     queue       eventQueue; event n is the n-th chunk of output,        *)
(*     reader      the loop over readStream(),                             *)
(*     requested, terminated, errors, timer  as in the adapter,            *)
(*     writing     a write() to its input is pending,                      *)
(*     listening   it hears of the cancellation of its token,              *)
(*     token       its canceller is "live" or "cancelled",                 *)
(*     arrived, cut, got   history: number of chunks so far, number of     *)
(*                 chunks when a request discarded the queue, what was read*)
(***************************************************************************)
EXTENDS Naturals, Sequences

NewProcess ==
    [os |-> "none", signal |-> "none", queue |-> <<>>, reader |-> "none",
     requested |-> FALSE, terminated |-> FALSE, errors |-> 0, timer |-> FALSE,
     writing |-> FALSE, listening |-> FALSE, token |-> "live", arrived |-> 0, cut |-> 0, got |-> <<>>]

\* The getter `process': the first use creates the child.
Started(pr) == IF pr.os = "none" THEN [pr EXCEPT !.os = "alive", !.listening = TRUE] ELSE pr

\* A reader that sleeps is woken.
Roused(pr) == [pr EXCEPT !.reader = IF @ = "asleep" THEN "ready" ELSE @]

\* kill(2): a child that ended takes no signal, and a KILL is not undone.
Signalled(pr, signal) ==
    [pr EXCEPT !.signal = IF pr.os = "alive" /\ @ # "KILL" THEN signal ELSE @]

\* requestTermination() as it would be if it discarded the queue at any rate.
Undrained(pr, drain) == [pr EXCEPT !.requested = TRUE, !.queue = <<>>]

\* What requestTermination() changes the first time.
Requested(pr, drain) ==
    [pr EXCEPT !.requested = TRUE,
               !.queue = IF drain THEN @ ELSE <<>>,
               !.cut = IF drain THEN @ ELSE pr.arrived]

\* gracefullyShutdown({ drain }): SIGTERM, and a timer for what comes after.
Shutdown(pr, drain) ==
    IF pr.requested \/ pr.terminated THEN pr
    ELSE [Signalled(Started(Requested(pr, drain)), "TERM") EXCEPT !.timer = TRUE]

\* kill({ drain }).
Killed(pr, drain) ==
    IF pr.requested \/ pr.terminated THEN pr
    ELSE Signalled(Started(Requested(pr, drain)), "KILL")

\* The cancellation of the token, of which only a child that was created hears.
Cancelled(pr, force) ==
    IF pr.token = "cancelled" THEN pr
    ELSE [(IF ~pr.listening THEN pr
           ELSE IF force THEN Killed(pr, FALSE) ELSE Shutdown(pr, TRUE))
          EXCEPT !.token = "cancelled"]

\* One turn of readStream(): the next event, the end, or sleep.
Turned(pr) ==
    CASE pr.queue # <<>> -> [pr EXCEPT !.reader = "busy", !.queue = Tail(@),
                                       !.got = Append(@, Head(pr.queue))]
      [] pr.queue = <<>> /\ pr.terminated ->
            [pr EXCEPT !.reader = IF pr.errors > 0 THEN "threw" ELSE "ended"]
      [] OTHER -> [pr EXCEPT !.reader = "asleep"]

\* handleStdoutData(), handleStderrData(): a chunk of output arrives.
Pushed(pr) ==
    Roused([pr EXCEPT !.arrived = @ + 1, !.queue = Append(@, pr.arrived + 1)])

\* handleClose() as it would be if it left the timer of the shutdown running.
ClosedTicking(pr, last) ==
    Roused([pr EXCEPT !.os = "closed", !.terminated = TRUE, !.listening = FALSE,
                      !.queue = Append(@, last)])

\* handleClose(): the timer is off, the exit event is the last one, and the
\* readers go on.
Closed(pr, last) ==
    Roused([pr EXCEPT !.os = "closed", !.terminated = TRUE, !.listening = FALSE,
                      !.timer = FALSE, !.queue = Append(@, last)])

\* handleFatalError() as it would be if it left the process running.
FailedOnly(pr) == Roused([pr EXCEPT !.errors = @ + 1])

\* handleFatalError(): an error of the child or of its streams ends it.
Failed(pr) == Shutdown(Roused([pr EXCEPT !.errors = @ + 1]), TRUE)
=============================================================================
