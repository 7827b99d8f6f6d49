----------------------------- MODULE LedgerScan -----------------------------
(***************************************************************************)
(* The two backward scans of the ledger file, chunk by chunk: that of      *)
(* NodeLedgerFileAdapter.readLinesJsonlAfter() for the events after a      *)
(* snapshot and that of NodeFileAdapter.readLastLineJsonl().               *)
(*                                                                         *)
(* The file is a sequence of bytes: 0 is a newline and n belongs to the    *)
(* n-th line, the event with sequence number n.  A crash may have cut off  *)
(* the last newline or torn the last line.                                 *)
(***************************************************************************)
EXTENDS Naturals, Sequences, FiniteSets, SequencesExt

CONSTANTS
    MaxLines,   \* bounds on the number of lines,
    MaxWidth,   \* on the bytes of a line without its newline
    MaxChunk    \* and on the bytes of a chunk

ASSUME ScanAssumption == MaxLines \in Nat /\ MaxWidth \in Nat \ {0} /\ MaxChunk \in Nat \ {0}

VARIABLES
    ledger,  \* the file: its bytes, its lines, and what the crash did to the last
    scan,    \* the scan: its kind and chunk size, position, leftover, found, phase
    read     \* the lines that the caller was given

scanVars == <<ledger, scan, read>>

\* What is left of the sequence number in a torn last line: all of it, nothing,
\* or some digits, which make a smaller number.
Numbers == {"whole", "none", "low"}

Bytes(widths) ==
    FlattenSeq([n \in 1..Len(widths) |->
                   [i \in 1..(widths[n] + 1) |-> IF i <= widths[n] THEN n ELSE 0]])

\* A scan of the given kind begins on a file with lines of these widths.
ScanInit(widths, ending, number, kind, after, chunk) ==
    /\ ledger = [bytes |-> IF ending = "newline" THEN Bytes(widths) ELSE Front(Bytes(widths)),
                 lines |-> Len(widths), torn |-> ending = "torn", number |-> number]
    /\ scan = [kind |-> kind, after |-> after, chunk |-> chunk,
               position |-> Len(ledger.bytes), leftover |-> <<>>, found |-> <<>>,
               phase |-> "scanning"]
    /\ read = <<>>

\* Any scan of any file within the bounds.
AnyScanInit ==
    \E widths \in SeqOf(1..MaxWidth, MaxLines), ending \in {"newline", "none", "torn"} :
        /\ ending # "newline" => widths # <<>>
        /\ \E number \in IF ending = "torn" THEN Numbers ELSE {"whole"},
              kind \in {"after", "last"}, after \in 0..Len(widths), chunk \in 2..MaxChunk :
              /\ kind = "last" => after = 0
              /\ ScanInit(widths, ending, number, kind, after, chunk)

\* split('\n').
Split(bytes) ==
    FoldLeft(LAMBDA lines, b : IF b = 0 THEN Append(lines, <<>>)
                               ELSE [lines EXCEPT ![Len(lines)] = Append(@, b)],
             << <<>> >>, bytes)

\* A line that JSON.parse() rejects: the torn one, or one that lacks bytes.
Broken(line) ==
    \/ ledger.torn /\ Last(line) = ledger.lines
    \/ Cardinality({i \in 1..Len(ledger.bytes) : ledger.bytes[i] = line[1]}) # Len(line)

\* The sequence number that the pattern finds in a line, and whether it does.
Numbered(line) == line # <<>> /\ ~(Broken(line) /\ ledger.number = "none")
Number(line) == IF Broken(line) /\ ledger.number = "low" THEN 0 ELSE Last(line)
-----------------------------------------------------------------------------
\* The next chunk as it would be if what was left of the previous one came first.
JoinedInFront(position) ==
    scan.leftover \o SubSeq(ledger.bytes, position + 1, scan.position)

\* The next chunk, with the incomplete line that followed it in the file.
Joined(position) ==
    SubSeq(ledger.bytes, position + 1, scan.position) \o scan.leftover

\* One turn of the loop of readLinesJsonlAfter(): the lines behind the last one
\* that is not newer are kept.  It ends at such a line, at the start of the
\* file, or when nothing is left over.
ScanAfter ==
    /\ scan.kind = "after" /\ scan.phase = "scanning" /\ scan.position > 0
    /\ LET position == scan.position - Min({scan.position, scan.chunk})
           split == Split(Joined(position))
           body == IF position > 0 THEN Tail(split) ELSE split
           left == IF position > 0 THEN Head(split) ELSE <<>>
           older == {i \in 1..Len(body) : Numbered(body[i]) /\ Number(body[i]) <= scan.after}
           newer == FlattenSeq([i \in 1..Len(body) |->
                       IF i > Max({0} \cup older) /\ Numbered(body[i]) THEN <<body[i]>> ELSE <<>>])
       IN  scan' = [scan EXCEPT !.position = position, !.leftover = left, !.found = newer \o @,
                       !.phase = IF older # {} \/ left = <<>> THEN "yielding" ELSE "scanning"]
    /\ UNCHANGED <<ledger, read>>

\* One turn of the loop of readLastLineJsonl(): the last line that is complete.
ScanLast ==
    /\ scan.kind = "last" /\ scan.phase = "scanning" /\ scan.position > 0
    /\ LET position == scan.position - Min({scan.position, scan.chunk})
           split == Split(Joined(position))
           complete == {i \in 2..Len(split) : split[i] # <<>>}
       IN  scan' = [scan EXCEPT !.position = position, !.leftover = Head(split),
                       !.found = IF complete = {} THEN <<>> ELSE <<split[Max(complete)]>>,
                       !.phase = IF complete = {} THEN "scanning" ELSE "yielding"]
    /\ UNCHANGED <<ledger, read>>

\* The whole file was scanned; readLastLineJsonl() still has its first line.
AtStart ==
    /\ scan.phase = "scanning" /\ scan.position = 0
    /\ scan' = [scan EXCEPT !.phase = "yielding",
                            !.found = IF scan.kind = "last" /\ scan.leftover # <<>>
                                      THEN <<scan.leftover>> ELSE @]
    /\ UNCHANGED <<ledger, read>>

\* The lines found are parsed and handed over one by one.
YieldLine ==
    /\ scan.phase = "yielding" /\ scan.found # <<>>
    /\ LET line == Head(scan.found)
       IN  IF Broken(line)
           THEN /\ scan' = [scan EXCEPT !.phase = "failed"]
                /\ UNCHANGED read
           ELSE /\ read' = Append(read, line[1])
                /\ scan' = [scan EXCEPT !.found = Tail(@)]
    /\ UNCHANGED ledger

EndScan ==
    /\ scan.phase = "yielding" /\ scan.found = <<>>
    /\ scan' = [scan EXCEPT !.phase = "done"]
    /\ UNCHANGED <<ledger, read>>

ScanNext == ScanAfter \/ ScanLast \/ AtStart \/ YieldLine \/ EndScan

ScanSpec == AnyScanInit /\ [][ScanNext]_scanVars
-----------------------------------------------------------------------------
\* The lines that a crash left whole, and those that a scan is asked for.
WholeLines == 1..(IF ledger.torn THEN ledger.lines - 1 ELSE ledger.lines)
Asked == IF scan.kind = "after" THEN {n \in WholeLines : n > scan.after}
         ELSE {n \in WholeLines : n = ledger.lines}

\* Wherever the chunks divide the file, a scan that succeeds hands over, in
\* order and without a gap, lines that end with the last whole one, and none
\* that was not asked for; the scan for the last line fails exactly when that
\* line is torn.
ScanReadsTheTail ==
    /\ \A i \in 1..Len(read) : read[i] \in Asked /\ (i > 1 => read[i] = read[i - 1] + 1)
    /\ scan.phase = "done" /\ read # <<>> => Last(read) \in WholeLines /\ Last(read) + 1 \notin WholeLines
    /\ scan.phase = "failed" => ledger.torn
    /\ scan.kind = "last" /\ scan.phase = "done" => ToSet(read) = Asked /\ ~ledger.torn

\* "Stop if we found it, or if we hit the very beginning cleanly": of a file
\* that no crash touched, every line after the given one is handed over.
ScanFindsAll ==
    scan.phase = "done" /\ ~ledger.torn => ToSet(read) = Asked
=============================================================================
