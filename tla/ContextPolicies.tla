--------------------------- MODULE ContextPolicies ---------------------------
(***************************************************************************)
(* What a context policy makes of the messages of a conversation           *)
(* (core/context-policies).  `weight' gives the token estimate of each     *)
(* message, Math.ceil(content.length / 4), in the order of the messages.   *)
(***************************************************************************)
EXTENDS Naturals, Sequences

TakeLast(s, n) == SubSeq(s, Len(s) - n + 1, Len(s))

\* tokenEstimate of the last n messages.
TokensOfLast(weight, n) ==
    LET tokens[k \in 0..n] ==
            IF k = 0 THEN 0 ELSE tokens[k - 1] + weight[Len(weight) - k + 1]
    IN  tokens[n]

\* The loop of selectFromEnd(): how many messages are retained.  It walks back
\* until a message does not fit, but never before `keep' messages.
Retained(weight, limit, keep) ==
    LET n == Len(weight)
        from[k \in 0..n] ==
            IF k = n \/ (TokensOfLast(weight, k + 1) > limit /\ k + 1 > keep) THEN k
            ELSE from[k + 1]
    IN  from[0]

\* TruncateContextPolicy with preserveLastN = keep.
Truncate(messages, weight, limit, keep) == TakeLast(messages, Retained(weight, limit, keep))

\* SlidingWindowContextPolicy
SlidingWindow(messages, weight, limit, window) ==
    TakeLast(messages, Retained(weight, IF window < limit THEN window ELSE limit, 0))

\* ReplaceContextPolicy: only the system message is left.
Replace == <<>>

\* SummarizeContextPolicy: with events in the ledger a summary replaces all
\* but the last `keep' messages, without it falls back to truncation.
Summarize(messages, weight, limit, keep, summary, events) ==
    IF messages = <<>> THEN <<>>
    ELSE IF events = 0 THEN Truncate(messages, weight, limit, keep)
    ELSE <<summary>> \o TakeLast(messages, IF keep < Len(messages) THEN keep ELSE Len(messages))
=============================================================================
