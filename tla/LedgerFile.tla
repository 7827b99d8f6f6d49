----------------------------- MODULE LedgerFile -----------------------------
(***************************************************************************)
(* The JSONL ledger file as the sequencer sees it: a sequence of lines and *)
(* whether the last of them ends in a newline.  A line is a committed      *)
(* event or Garbage, text that does not parse.  An event is                *)
(*     [id |-> its identity, seq |-> sequenceNumber, prev |-> prevHash].   *)
(* The hash of an event covers all of its fields, the random eventId       *)
(* included, and is taken to be collision-free: it is the event's id.      *)
(***************************************************************************)
EXTENDS Naturals, Sequences

CONSTANT Garbage    \* a line that does not parse, or is no committed event

ASSUME GarbageAssumption == Garbage \notin [id : Nat, seq : Nat, prev : Nat]

Genesis == 0        \* getInitialEventHash()

EmptyFile == [lines |-> <<>>, terminated |-> TRUE]

HashOf(e) == e.id

\* Text appended to the file: it starts a line of its own only when the text
\* before it ended in a newline, and otherwise joins the last line, which
\* then parses no more.
AddText(f, line, ends) ==
    [lines |-> IF f.terminated
               THEN Append(f.lines, line)
               ELSE [f.lines EXCEPT ![Len(f.lines)] = Garbage],
     terminated |-> ends]

\* appendJsonl(): one event and a newline.
AppendJsonl(f, e) == AddText(f, e, TRUE)

\* What a write that stops half-way can leave: a fragment that does not
\* parse, or the event without its newline.
TornAppend(f, e, tail) ==
    AddText(f, IF tail = "fragment" THEN Garbage ELSE e, FALSE)

\* The last line, as readLastEvent() finds it: no event at all, an event, or
\* Garbage, which makes it throw.
LastLine(f) ==
    IF f.lines = <<>> THEN [id |-> Genesis, seq |-> 0, prev |-> Genesis]
                      ELSE f.lines[Len(f.lines)]

\* readEvents() yields every line of the file and does not throw: each line
\* is an event and names the hash of the line before it.  The first line is
\* compared with nothing when the caller passes afterSequence, as the kernel
\* always does.
ReplayAccepts(f) ==
    \A i \in 1..Len(f.lines) :
        /\ f.lines[i] # Garbage
        /\ i > 1 => f.lines[i].prev = HashOf(f.lines[i - 1])
=============================================================================
