--------------------------- MODULE EventSequencer ---------------------------
(***************************************************************************)
(* DefaultEventSequencer.commit() called concurrently, the ledger file it  *)
(* appends to, write and read failures, and crashes of the process.  The   *)
(* in-memory state (mutex, counters, listeners) is lost in a crash; the    *)
(* file survives.                                                          *)
(***************************************************************************)
EXTENDS LedgerFile, Mutex, FiniteSets

CONSTANTS
    Clients,       \* concurrent callers of commit()
    MaxCommits,    \* bound on the number of commit() calls
    MaxCrashes,    \* bound on the number of crashes
    AppendFaults,  \* what a rejected append may leave: "clean" and torn tails
    CrashTails     \* torn tails that a crash during a write may leave

Tails == {"fragment", "unterminated"}

ASSUME BoundsAssumption == MaxCommits \in Nat \ {0} /\ MaxCrashes \in Nat
ASSUME FaultsAssumption ==
    AppendFaults \subseteq Tails \cup {"clean"} /\ CrashTails \subseteq Tails

VARIABLES
    mutex,      \* lockMutex
    pc,         \* where each caller is in commit()
    draft,      \* the caller's event, once stamped with seq and prev
    volatile,   \* the caller's event is volatile
    hydrated,   \* isHydrated
    lastSeq,    \* lastSequenceNumber
    lastHash,   \* lastDurableHash
    file,       \* the ledger file
    announced,  \* the events passed to the commit listeners since the start
    persisted,  \* every durable event that was ever announced
    issued,     \* number of commit() calls so far
    crashes     \* number of crashes so far

memory == <<hydrated, lastSeq, lastHash, announced>>
vars == <<mutex, pc, draft, volatile, memory, file, persisted, issued, crashes>>

Id == 1..MaxCommits
Event == [id : Id, seq : Nat, prev : Id \cup {Genesis}]
PCs == {"idle", "locking", "hydrating", "writing", "announcing"}

\* The types of the variables.
TypeOK ==
    /\ mutex \in [locked : BOOLEAN, waiters : Seq(Clients)]
    /\ pc \in [Clients -> PCs]
    /\ draft \in [Clients -> Event]
    /\ volatile \in [Clients -> BOOLEAN]
    /\ hydrated \in BOOLEAN
    /\ lastSeq \in Nat
    /\ lastHash \in Id \cup {Genesis}
    /\ file \in [lines : Seq(Event \cup {Garbage}), terminated : BOOLEAN]
    /\ announced \in Seq(Event)
    /\ persisted \subseteq Event
    /\ issued \in 0..MaxCommits
    /\ crashes \in 0..MaxCrashes

NoDraft == [c \in Clients |-> [id |-> 1, seq |-> 0, prev |-> Genesis]]

Init ==
    /\ mutex = FreeMutex
    /\ pc = [c \in Clients |-> "idle"]
    /\ draft = NoDraft
    /\ volatile = [c \in Clients |-> FALSE]
    /\ hydrated = FALSE
    /\ lastSeq = 0
    /\ lastHash = Genesis
    /\ file = EmptyFile
    /\ announced = <<>>
    /\ persisted = {}
    /\ issued = 0
    /\ crashes = 0

\* commit(event): take the mutex or queue for it.  The id stands for the call.
Commit(c, isVolatile) ==
    /\ pc[c] = "idle"
    /\ issued < MaxCommits
    /\ issued' = issued + 1
    /\ draft' = [draft EXCEPT ![c].id = issued + 1]
    /\ volatile' = [volatile EXCEPT ![c] = isVolatile]
    /\ mutex' = Lock(mutex, c)
    /\ pc' = [pc EXCEPT ![c] = IF mutex.locked THEN "locking" ELSE "hydrating"]
    /\ UNCHANGED <<memory, file, persisted, crashes>>

\* The commit of c settles, with its event or with an error, and the mutex
\* goes to the next caller.
Settle(c) ==
    /\ mutex' = Unlock(mutex)
    /\ pc' = [d \in Clients |-> IF d \in WokenByUnlock(mutex) THEN "hydrating"
                                ELSE IF d = c THEN "idle" ELSE pc[d]]

\* ensureHydrated(): the counters resume from the last line of the ledger, once.
Restore ==
    /\ hydrated' = TRUE
    /\ lastSeq' = IF hydrated THEN lastSeq ELSE LastLine(file).seq
    /\ lastHash' = IF hydrated THEN lastHash ELSE HashOf(LastLine(file))

\* Then commitEvent() numbers the event and links it to the last durable one;
\* a durable event goes on to the ledger, a volatile one to the listeners.
Stamp(c) ==
    /\ pc[c] = "hydrating"
    /\ hydrated \/ LastLine(file) # Garbage
    /\ Restore
    /\ draft' = [draft EXCEPT ![c] =
                   [id |-> draft[c].id, seq |-> lastSeq' + 1, prev |-> lastHash']]
    /\ pc' = [pc EXCEPT ![c] = IF volatile[c] THEN "announcing" ELSE "writing"]
    /\ UNCHANGED <<mutex, volatile, file, announced, persisted, issued, crashes>>

\* readLastEvent() throws, on an I/O error or on a last line that does not
\* parse: this commit fails, the next one tries again.
HydrationFails(c) ==
    /\ pc[c] = "hydrating"
    /\ ~hydrated
    /\ Settle(c)
    /\ UNCHANGED <<draft, volatile, memory, file, persisted, issued, crashes>>

\* ledger.appendEvent() reaches the file ...
Write(c) ==
    /\ pc[c] = "writing"
    /\ file' = AppendJsonl(file, draft[c])
    /\ pc' = [pc EXCEPT ![c] = "announcing"]
    /\ UNCHANGED <<mutex, draft, volatile, memory, persisted, issued, crashes>>

\* A rejected append as it would be if the mutex were not released in a
\* finally block.
WriteFailsLocked(c) ==
    /\ pc[c] = "writing"
    /\ pc' = [pc EXCEPT ![c] = "idle"]
    /\ UNCHANGED <<mutex, draft, volatile, memory, file, persisted, issued, crashes>>

\* A rejected append as it would be if the counter had moved on before it.
WriteFailsCounted(c) ==
    /\ pc[c] = "writing"
    /\ lastSeq' = draft[c].seq
    /\ Settle(c)
    /\ UNCHANGED <<draft, volatile, hydrated, lastHash, announced, file,
                   persisted, issued, crashes>>

\* A rejected append as it would be if its error were swallowed.
WriteFailsUnnoticed(c) ==
    /\ pc[c] = "writing"
    /\ pc' = [pc EXCEPT ![c] = "announcing"]
    /\ UNCHANGED <<mutex, draft, volatile, memory, file, persisted, issued, crashes>>

\* ... or rejects, leaving nothing or a torn tail; the commit fails and the
\* counters stay as they are.
WriteFails(c) ==
    /\ pc[c] = "writing"
    /\ \E fault \in AppendFaults :
          file' = IF fault = "clean" THEN file ELSE TornAppend(file, draft[c], fault)
    /\ Settle(c)
    /\ UNCHANGED <<draft, volatile, memory, persisted, issued, crashes>>

\* The last durable hash as it would be if volatile events joined the chain.
HashAfterAny(c) == HashOf(draft[c])

\* The last durable hash after the event of c.
HashAfter(c) == IF volatile[c] THEN lastHash ELSE HashOf(draft[c])

\* The counters move on and the commit listeners run.
Announce(c) ==
    /\ pc[c] = "announcing"
    /\ lastSeq' = draft[c].seq
    /\ lastHash' = HashAfter(c)
    /\ announced' = Append(announced, draft[c])
    /\ persisted' = IF volatile[c] THEN persisted ELSE persisted \cup {draft[c]}
    /\ Settle(c)
    /\ UNCHANGED <<draft, volatile, hydrated, file, issued, crashes>>

\* The process dies and starts again.  A write that was under way may have
\* left a torn tail; one that had not begun leaves nothing.
Crash ==
    /\ crashes < MaxCrashes
    /\ crashes' = crashes + 1
    /\ \/ file' = file
       \/ \E c \in Clients, tail \in CrashTails :
             pc[c] = "writing" /\ file' = TornAppend(file, draft[c], tail)
    /\ mutex' = FreeMutex
    /\ pc' = [c \in Clients |-> "idle"]
    /\ draft' = NoDraft
    /\ volatile' = [c \in Clients |-> FALSE]
    /\ hydrated' = FALSE
    /\ lastSeq' = 0
    /\ lastHash' = Genesis
    /\ announced' = <<>>
    /\ UNCHANGED <<persisted, issued>>

\* Every call has settled and the bound on calls is reached.
Exhausted ==
    /\ issued = MaxCommits
    /\ \A c \in Clients : pc[c] = "idle"
    /\ UNCHANGED vars

Progress(c) ==
    Stamp(c) \/ HydrationFails(c) \/ Write(c) \/ WriteFails(c) \/ Announce(c)

Next ==
    \/ \E c \in Clients :
          \/ \E isVolatile \in BOOLEAN : Commit(c, isVolatile)
          \/ Progress(c)
    \/ Crash
    \/ Exhausted

\* A commit under way is not abandoned: reads and writes of the file settle.
Fairness == \A c \in Clients : WF_vars(Progress(c))

Spec == Init /\ [][Next]_vars /\ Fairness
-----------------------------------------------------------------------------
Lines == file.lines

\* The caller inside the mutex's critical section, if any.
Inside == {c \in Clients : pc[c] \in {"hydrating", "writing", "announcing"}}

\* Line i is an event that continues the line before it.
Linked(lines, i) ==
    /\ lines[i] # Garbage
    /\ lines[i].prev = IF i = 1 THEN Genesis ELSE HashOf(lines[i - 1])
    /\ lines[i].seq > IF i = 1 THEN 0 ELSE lines[i - 1].seq

\* The events of the ledger form one chain from the genesis hash, with
\* increasing sequence numbers; only a last line without its newline may be
\* unreadable.  It is what lets the ledger load after any number of failed
\* commits and crashes.
ChainIntact ==
    \A i \in 1..Len(Lines) :
        \/ i = Len(Lines) /\ ~file.terminated /\ Lines[i] = Garbage
        \/ Linked(Lines, i)

\* A durable event that the listeners saw, in this run of the process or an
\* earlier one, is in the ledger.
AnnouncedArePersisted ==
    \A e \in persisted : \E i \in 1..Len(Lines) : Lines[i] = e

\* Within one run of the process the announced events are numbered without
\* gaps or repetitions, whatever commits fail in between.
AnnouncedWithoutGaps ==
    \A i \in 1..Len(announced) - 1 : announced[i + 1].seq = announced[i].seq + 1

\* The mutex serialises the commits: the caller inside owns it.
Serialised == Consistent(mutex, Inside, {c \in Clients : pc[c] = "locking"})

\* Nothing is written behind a torn tail.
TornTailIsLast ==
    /\ ~file.terminated => Lines # <<>> /\ LastLine(file) = Garbage
    /\ hydrated => file.terminated

\* A draft stamped before the write is still the successor of the counters
\* when it is written and announced, and the counters describe the ledger
\* whenever no write waits to be announced.
InSync ==
    /\ \A c \in Clients :
          /\ pc[c] \in {"writing", "announcing"} =>
                hydrated /\ draft[c].seq = lastSeq + 1 /\ draft[c].prev = lastHash
          /\ pc[c] = "writing" => ~volatile[c]
          /\ pc[c] = "announcing" /\ ~volatile[c] =>
                Lines # <<>> /\ LastLine(file) = draft[c]
    /\ hydrated /\ (\A c \in Clients : pc[c] = "announcing" => volatile[c]) =>
          lastHash = HashOf(LastLine(file)) /\ LastLine(file).seq <= lastSeq
    /\ announced # <<>> => hydrated /\ announced[Len(announced)].seq = lastSeq

\* The inductive invariant behind the three properties above.
IndInv ==
    /\ TypeOK
    /\ Serialised
    /\ TornTailIsLast
    /\ InSync
    /\ ChainIntact
    /\ AnnouncedArePersisted
    /\ AnnouncedWithoutGaps

\* Commits take effect in the order in which they were called.
CommitsInCallOrder ==
    \A i \in 1..Len(announced) - 1 : announced[i].id < announced[i + 1].id

\* The inductive invariant behind CommitsInCallOrder: the queue of the mutex is
\* sorted by call, the caller inside came before it, and the last announced
\* event before both.
CallOrder ==
    /\ CommitsInCallOrder
    /\ \A c \in Clients : pc[c] # "idle" =>
          /\ draft[c].id <= issued
          /\ announced # <<>> => announced[Len(announced)].id < draft[c].id
    /\ announced # <<>> => announced[Len(announced)].id <= issued
    /\ \A i \in 1..Len(mutex.waiters) :
          /\ \A c \in Inside : draft[c].id < draft[mutex.waiters[i]].id
          /\ \A j \in 1..Len(mutex.waiters) :
                i < j => draft[mutex.waiters[i]].id < draft[mutex.waiters[j]].id

\* Every commit settles, also after others failed, unless the process dies.
EveryCommitSettles ==
    \A c \in Clients : pc[c] # "idle" ~> pc[c] = "idle"
=============================================================================
